---- MODULE Spec2Model ----
(***************************************************************************)
(* Model of the CSI external provisioner (csiProvisioner.Provision and     *)
(* Delete, getVolumeContentSource, getSecretReference, resolveTemplate,    *)
(* getCredentials, bytesToGiQuantity) of dearcode/csi-lvm.                 *)
(*                                                                         *)
(* Byte counts are Go int64 values.  They are kept as two limbs            *)
(* [hi, lo] with value hi * 2^30 + lo and 0 <= lo < 2^30, so that counts   *)
(* of several GiB and counts beyond 2^53 (where float64 stops being exact) *)
(* are represented exactly.                                                *)
(***************************************************************************)
EXTENDS Integers, Sequences, FiniteSets, TLC

None == [none |-> TRUE]

(***************************************************************************)
(* int64 byte counts                                                       *)
(***************************************************************************)
Limb == 1024 * 1024 * 1024

Bytes(hi, lo) == [hi |-> hi, lo |-> lo]

Less(a, b) == a.hi < b.hi \/ (a.hi = b.hi /\ a.lo < b.lo)

LessEq(a, b) == ~Less(b, a)

Zero == Bytes(0, 0)
MiB512 == Bytes(0, 512 * 1024 * 1024)
GiB1 == Bytes(1, 0)
GiB3 == Bytes(3, 0)
\* 2^53 = 2^23 * 2^30: the first int64 magnitude at which float64 has a
\* spacing of 2 between neighbouring values.
Pow23 == 8 * 1024 * 1024

RECURSIVE BitLen(_)
BitLen(n) == IF n = 0 THEN 0 ELSE 1 + BitLen(n \div 2)

RECURSIVE Pow2(_)
Pow2(k) == IF k = 0 THEN 1 ELSE 2 * Pow2(k - 1)

\* float64(bytes): exact while the count has at most 53 significant bits,
\* otherwise rounded to the nearest representable value, ties to even.
\* The result is again given as limbs (it is always an integer here).
float64(b) ==
    LET shift == BitLen(b.hi) + 30 - 53
    IN  IF shift <= 0 THEN b
        ELSE LET ulp == Pow2(shift)
                 q == b.lo \div ulp
                 r == b.lo % ulp
                 up == (2 * r > ulp) \/ (2 * r = ulp /\ q % 2 = 1)
                 lo2 == (IF up THEN q + 1 ELSE q) * ulp
             IN  IF lo2 = Limb THEN Bytes(b.hi + 1, 0) ELSE Bytes(b.hi, lo2)

MiB == 1024 * 1024

\* math.Ceil(x / d) for a non-negative integer x below 2^30
CeilDiv(x, d) == (x + d - 1) \div d

\* bytesToGiQuantity: the number and the suffix handed to resource.MustParse
bytesToGiQuantity(bytes) ==
    LET floatBytes == float64(bytes)
    IN  IF floatBytes.hi = 0
        THEN [num |-> CeilDiv(floatBytes.lo, MiB), suffix |-> "Mi"]
        ELSE [num |-> floatBytes.hi + (IF floatBytes.lo > 0 THEN 1 ELSE 0),
              suffix |-> "Gi"]

\* The byte count a parsed quantity "<num>Mi" / "<num>Gi" stands for.
QuantityValue(q) ==
    IF q.suffix = "Gi" THEN Bytes(q.num, 0)
    ELSE Bytes(q.num \div 1024, (q.num % 1024) * MiB)

(***************************************************************************)
(* Strings are sequences of one-character strings.  A template is a        *)
(* sequence of segments as os.Expand reads it: literal text [lit |-> s]    *)
(* and variable references ${name}, [tok |-> name].  A token name is a     *)
(* tuple: <<"pv.name">>, <<"pvc.name">>, <<"pvc.namespace">> or            *)
(* <<"pvc.annotations", key>> for pvc.annotations['key'].                  *)
(***************************************************************************)
RECURSIVE Concat(_)
Concat(ss) == IF ss = <<>> THEN <<>> ELSE Head(ss) \o Concat(Tail(ss))

Range(f) == {f[i] : i \in DOMAIN f}

IsTok(seg) == "tok" \in DOMAIN seg

LowerAlnum ==
    {"a", "b", "c", "d", "e", "f", "g", "h", "i", "j", "k", "l", "m",
     "n", "o", "p", "q", "r", "s", "t", "u", "v", "w", "x", "y", "z",
     "0", "1", "2", "3", "4", "5", "6", "7", "8", "9"}

\* validation.IsDNS1123Label(value) reports no error
IsDNS1123Label(s) ==
    /\ Len(s) >= 1
    /\ Len(s) <= 63
    /\ s[1] \in LowerAlnum
    /\ s[Len(s)] \in LowerAlnum
    /\ \A i \in 1..Len(s) : s[i] \in LowerAlnum \cup {"-"}

\* validation.IsDNS1123Subdomain(value) reports no error
IsDNS1123Subdomain(s) ==
    /\ Len(s) >= 1
    /\ Len(s) <= 253
    /\ s[1] \in LowerAlnum
    /\ s[Len(s)] \in LowerAlnum
    /\ \A i \in 1..Len(s) : s[i] \in LowerAlnum \cup {"-", "."}
    /\ \A i \in 2..(Len(s) - 1) :
          s[i] = "." => s[i - 1] \in LowerAlnum /\ s[i + 1] \in LowerAlnum

\* The name of a token as it is written between ${ and }.
TokenText(tok) ==
    IF Len(tok) = 1 THEN <<tok[1]>> ELSE <<"pvc.annotations['", tok[2], "']">>

\* The text of a template as written in the storage class.
TemplateText(template) ==
    Concat([i \in 1..Len(template) |->
               IF IsTok(template[i])
               THEN <<"$", "{">> \o TokenText(template[i].tok) \o <<"}">>
               ELSE template[i].lit])

\* (as MissingParams, but only one missing token is kept)
MissingParams_FirstOnly(template, params) ==
    LET missing == {i \in 1..Len(template) :
                       IsTok(template[i]) /\ template[i].tok \notin DOMAIN params}
    IN  IF missing = {} THEN {}
        ELSE {template[CHOOSE i \in missing : \A j \in missing : i <= j].tok}

\* The tokens of the template that the mapping function of os.Expand is
\* called with and does not find in params.
MissingParams(template, params) ==
    {seg.tok : seg \in {x \in Range(template) : IsTok(x) /\ x.tok \notin DOMAIN params}}

\* os.Expand(template, mapping): a missing token expands to "".
Expand(template, params) ==
    Concat([i \in 1..Len(template) |->
               IF IsTok(template[i])
               THEN IF template[i].tok \in DOMAIN params
                    THEN params[template[i].tok] ELSE <<>>
               ELSE template[i].lit])

InvalidTokens(missing) == [msg |-> "invalid tokens", tokens |-> missing]

\* (as resolveTemplate, but a token params lacks expands to "" and is no
\* error)
resolveTemplate_DropsMissing(template, params) ==
    [val |-> Expand(template, params), err |-> None]

\* resolveTemplate: (resolved, nil), or ("", error listing the missing set)
resolveTemplate(template, params) ==
    LET missingParams == MissingParams(template, params)
    IN  IF Cardinality(missingParams) > 0
        THEN [val |-> <<>>, err |-> InvalidTokens(missingParams)]
        ELSE [val |-> Expand(template, params), err |-> None]

(***************************************************************************)
(* getSecretReference                                                      *)
(***************************************************************************)
provisionerSecretNameKey == "csiProvisionerSecretName"
provisionerSecretNamespaceKey == "csiProvisionerSecretNamespace"
controllerPublishSecretNameKey == "csiControllerPublishSecretName"
controllerPublishSecretNamespaceKey == "csiControllerPublishSecretNamespace"
nodeStageSecretNameKey == "csiNodeStageSecretName"
nodeStageSecretNamespaceKey == "csiNodeStageSecretNamespace"
nodePublishSecretNameKey == "csiNodePublishSecretName"
nodePublishSecretNamespaceKey == "csiNodePublishSecretNamespace"

\* storageClassParams[key]: the value, or "" when the key is absent
Lookup(params, key) == IF key \in DOMAIN params THEN params[key] ELSE <<>>

MustBeSpecifiedTogether(nameKey, namespaceKey) ==
    [msg |-> "parameters must be specified together",
     nameKey |-> nameKey, namespaceKey |-> namespaceKey]

ErrResolving(key, template, cause) ==
    [msg |-> "error resolving value", key |-> key, template |-> template,
     cause |-> cause]

\* "... resolved to %q which is not a valid ..." when the template and its
\* resolution differ, "... is not a valid ..." when they are the same text.
ErrNotValid(what, key, template, resolved) ==
    IF TemplateText(template) # resolved
    THEN [msg |-> "resolved to a value which is not valid", what |-> what,
          key |-> key, template |-> template, resolved |-> resolved]
    ELSE [msg |-> "is not valid", what |-> what, key |-> key,
          template |-> template]

\* len(nameTemplate) == 0 || len(namespaceTemplate) == 0
TemplateUnset_Both(nameTemplate, namespaceTemplate) ==
    Len(nameTemplate) = 0 /\ Len(namespaceTemplate) = 0

TemplateUnset(nameTemplate, namespaceTemplate) ==
    Len(nameTemplate) = 0 \/ Len(namespaceTemplate) = 0

\* (as NamespaceParams, but the claim's name is a token too)
NamespaceParams_WithClaimName(pvName, pvc) ==
    IF pvc = None THEN (<<"pv.name">> :> pvName)
    ELSE (<<"pv.name">> :> pvName) @@ (<<"pvc.namespace">> :> pvc.Namespace)
         @@ (<<"pvc.name">> :> pvc.Name)

\* The tokens a namespace template may use.
NamespaceParams(pvName, pvc) ==
    IF pvc = None THEN (<<"pv.name">> :> pvName)
    ELSE (<<"pv.name">> :> pvName) @@ (<<"pvc.namespace">> :> pvc.Namespace)

\* The tokens a name template may use.
NameParams(pvName, pvc) ==
    IF pvc = None THEN (<<"pv.name">> :> pvName)
    ELSE (<<"pv.name">> :> pvName)
         @@ (<<"pvc.name">> :> pvc.Name)
         @@ (<<"pvc.namespace">> :> pvc.Namespace)
         @@ [t \in {<<"pvc.annotations", k>> : k \in DOMAIN pvc.Annotations}
                |-> pvc.Annotations[t[2]]]

\* getSecretReference: [ref |-> reference or None, err |-> error or None]
getSecretReference(nameKey, namespaceKey, storageClassParams, pvName, pvc) ==
    LET nameTemplate == Lookup(storageClassParams, nameKey)
        hasName == nameKey \in DOMAIN storageClassParams
        namespaceTemplate == Lookup(storageClassParams, namespaceKey)
        hasNamespace == namespaceKey \in DOMAIN storageClassParams
        ns == resolveTemplate(namespaceTemplate, NamespaceParams(pvName, pvc))
        nm == resolveTemplate(nameTemplate, NameParams(pvName, pvc))
    IN  IF ~hasName /\ ~hasNamespace
        THEN [ref |-> None, err |-> None]
        ELSE IF TemplateUnset(nameTemplate, namespaceTemplate)
        THEN [ref |-> None,
              err |-> MustBeSpecifiedTogether(nameKey, namespaceKey)]
        ELSE IF ns.err # None
        THEN [ref |-> None,
              err |-> ErrResolving(namespaceKey, namespaceTemplate, ns.err)]
        ELSE IF ~IsDNS1123Label(ns.val)
        THEN [ref |-> None,
              err |-> ErrNotValid("namespace name", namespaceKey,
                                  namespaceTemplate, ns.val)]
        ELSE IF nm.err # None
        THEN [ref |-> None,
              err |-> ErrResolving(nameKey, nameTemplate, nm.err)]
        ELSE IF ~IsDNS1123Subdomain(nm.val)
        THEN [ref |-> None,
              err |-> ErrNotValid("secret name", nameKey, nameTemplate, nm.val)]
        ELSE [ref |-> [Namespace |-> ns.val, Name |-> nm.val], err |-> None]

(***************************************************************************)
(* Provision: helpers                                                      *)
(***************************************************************************)
backoffSteps == 10

snapshotKind == "VolumeSnapshot"
snapshotAPIGroup == "snapshot.storage.k8s.io"
provisionerIDKey == "storage.kubernetes.io/csiProvisionerIdentity"

Errorf(msg) == [msg |-> msg]

Returned(pv, e) == [kind |-> "return", pv |-> pv, err |-> e]
Panicked == [kind |-> "panic", pv |-> None, err |-> None]
NoResult == [kind |-> "none", pv |-> None, err |-> None]

\* strings.Replace(s, "-", "", -1)
RECURSIVE StripDashes(_)
StripDashes(s) ==
    IF s = <<>> THEN <<>>
    ELSE IF Head(s) = "-" THEN StripDashes(Tail(s))
    ELSE <<Head(s)>> \o StripDashes(Tail(s))

\* (as makeVolumeName, but a claim without UID is given a name)
makeVolumeName_NoUIDCheck(prefix, pvcUID, volumeNameUUIDLength) ==
    IF Len(prefix) = 0
    THEN [name |-> <<>>, panic |-> FALSE,
          err |-> Errorf("Volume name prefix cannot be of length 0")]
    ELSE IF volumeNameUUIDLength = -1
    THEN [name |-> prefix \o <<"-">> \o pvcUID, panic |-> FALSE, err |-> None]
    ELSE IF volumeNameUUIDLength < 0
            \/ volumeNameUUIDLength > Len(StripDashes(pvcUID))
    THEN [name |-> <<>>, panic |-> TRUE, err |-> None]
    ELSE [name |-> prefix \o <<"-">>
                     \o SubSeq(StripDashes(pvcUID), 1, volumeNameUUIDLength),
          panic |-> FALSE, err |-> None]

\* makeVolumeName: [name, err, panic]; the slice [0:n] of a string shorter
\* than n (or with n < 0) is a run-time panic.
makeVolumeName(prefix, pvcUID, volumeNameUUIDLength) ==
    IF Len(prefix) = 0
    THEN [name |-> <<>>, panic |-> FALSE,
          err |-> Errorf("Volume name prefix cannot be of length 0")]
    ELSE IF Len(pvcUID) = 0
    THEN [name |-> <<>>, panic |-> FALSE,
          err |-> Errorf("corrupted PVC object, it is missing UID")]
    ELSE IF volumeNameUUIDLength = -1
    THEN [name |-> prefix \o <<"-">> \o pvcUID, panic |-> FALSE, err |-> None]
    ELSE IF volumeNameUUIDLength < 0
            \/ volumeNameUUIDLength > Len(StripDashes(pvcUID))
    THEN [name |-> <<>>, panic |-> TRUE, err |-> None]
    ELSE [name |-> prefix \o <<"-">>
                   \o SubSeq(StripDashes(pvcUID), 1, volumeNameUUIDLength),
          panic |-> FALSE, err |-> None]

\* The checks of the claim's data source at the head of Provision:
\* "ok" (needSnapshotSupport), "none" (no data source), an error, or the
\* panic of dereferencing a nil APIGroup.
CheckDataSource(ds) ==
    IF ds = None THEN [out |-> "none", err |-> None]
    ELSE IF ds.Name = <<>>
    THEN [out |-> "err", err |-> Errorf("the PVC source not found")]
    ELSE IF ds.Kind # snapshotKind
    THEN [out |-> "err",
          err |-> [msg |-> "the PVC source is not the right type",
                   got |-> ds.Kind]]
    ELSE IF ds.APIGroup = None
    THEN [out |-> "panic", err |-> None]
    ELSE IF ds.APIGroup.val # snapshotAPIGroup
    THEN [out |-> "err",
          err |-> [msg |-> "the PVC source does not belong to the right APIGroup",
                   got |-> ds.APIGroup.val]]
    ELSE [out |-> "ok", err |-> None]

\* capacity.Value() of Requests[storage]: 0 when the claim names no amount
RequestedBytes(pvc) == IF pvc.Request = None THEN Zero ELSE pvc.Request

(***************************************************************************)
(* getVolumeContentSource                                                  *)
(***************************************************************************)
NotBoundOrInvalid == Errorf("snapshot in dataSource not bound or invalid")

ReadSnapshot == [op |-> "GetVolumeSnapshot"]
ReadContent == [op |-> "GetVolumeSnapshotContent"]

\* (as BoundToDifferentSnapshot, but the UID is not compared)
BoundToDifferentSnapshot_NoUID(ref, snapshotObj) ==
    \/ ref.Namespace # snapshotObj.Namespace
    \/ ref.Name # snapshotObj.Name

\* The content object is bound to another snapshot than snapshotObj.
BoundToDifferentSnapshot(ref, snapshotObj) ==
    \/ ref.UID # snapshotObj.UID
    \/ ref.Namespace # snapshotObj.Namespace
    \/ ref.Name # snapshotObj.Name

\* (as CheckRestoreSize, but a request equal to the restore size fails too)
CheckRestoreSize_FailsOnEqual(pvc, snapshotObj) ==
    IF snapshotObj.RestoreSize = None THEN None
    ELSE IF pvc.Request = None
    THEN Errorf("error getting capacity for PVC when creating snapshot")
    ELSE IF LessEq(pvc.Request, snapshotObj.RestoreSize)
    THEN Errorf("requested volume size is less than the size for the source snapshot")
    ELSE None

\* The restore-size check: an error, or None when it passes.
CheckRestoreSize(pvc, snapshotObj) ==
    IF snapshotObj.RestoreSize = None THEN None
    ELSE IF pvc.Request = None
    THEN Errorf("error getting capacity for PVC when creating snapshot")
    ELSE IF Less(pvc.Request, snapshotObj.RestoreSize)
    THEN Errorf("requested volume size is less than the size for the source snapshot")
    ELSE None

\* getVolumeContentSource, given what the two reads of the snapshot API
\* answer: [src |-> snapshot handle or None, err, reads |-> the reads made]
getVolumeContentSource(options, snapGet, contentGet) ==
    LET snapshotObj == snapGet.obj
        snapContentObj == contentGet.obj
    IN  IF snapGet.err # None
        THEN [src |-> None, reads |-> <<ReadSnapshot>>,
              err |-> [msg |-> "error getting snapshot from api server",
                       cause |-> snapGet.err]]
        ELSE IF snapshotObj.Ready = FALSE
        THEN [src |-> None, reads |-> <<ReadSnapshot>>,
              err |-> Errorf("snapshot is not Ready")]
        ELSE IF snapshotObj.Deleting
        THEN [src |-> None, reads |-> <<ReadSnapshot>>,
              err |-> Errorf("snapshot is currently being deleted")]
        ELSE IF contentGet.err # None
        THEN [src |-> None, reads |-> <<ReadSnapshot, ReadContent>>,
              err |-> NotBoundOrInvalid]
        ELSE IF snapContentObj.VolumeSnapshotRef = None
        THEN [src |-> None, reads |-> <<ReadSnapshot, ReadContent>>,
              err |-> NotBoundOrInvalid]
        ELSE IF BoundToDifferentSnapshot(snapContentObj.VolumeSnapshotRef,
                                         snapshotObj)
        THEN [src |-> None, reads |-> <<ReadSnapshot, ReadContent>>,
              err |-> NotBoundOrInvalid]
        ELSE IF snapContentObj.CSI = None
        THEN [src |-> None, reads |-> <<ReadSnapshot, ReadContent>>,
              err |-> NotBoundOrInvalid]
        ELSE IF CheckRestoreSize(options.PVC, snapshotObj) # None
        THEN [src |-> None, reads |-> <<ReadSnapshot, ReadContent>>,
              err |-> CheckRestoreSize(options.PVC, snapshotObj)]
        ELSE [src |-> [Snapshot |-> snapContentObj.CSI.SnapshotHandle],
              reads |-> <<ReadSnapshot, ReadContent>>, err |-> None]

\* Provision's wrapping of an error of getVolumeContentSource
ErrSnapshotHandle(cause) ==
    [msg |-> "error getting snapshot handle for snapshot", cause |-> cause]

(***************************************************************************)
(* getCredentials                                                          *)
(***************************************************************************)
ReadSecret(ref) == [op |-> "GetSecret", ref |-> ref]

\* getCredentials, given what the read of the secret answers:
\* [credentials, err, reads]
getCredentials(ref, secretGet) ==
    IF ref = None
    THEN [credentials |-> None, err |-> None, reads |-> <<>>]
    ELSE IF secretGet.err # None
    THEN [credentials |-> None, reads |-> <<ReadSecret(ref)>>,
          err |-> [msg |-> "error getting secret", ref |-> ref,
                   cause |-> secretGet.err]]
    ELSE [credentials |-> secretGet.data, err |-> None,
          reads |-> <<ReadSecret(ref)>>]

(***************************************************************************)
(* The create-volume call under wait.ExponentialBackoff                    *)
(***************************************************************************)
DeadlineExceeded == [grpc |-> TRUE, code |-> "DeadlineExceeded"]
Internal == [grpc |-> TRUE, code |-> "Internal"]
\* an error that carries no gRPC status (status.FromError reports !ok)
PlainError == [grpc |-> FALSE, code |-> "connection refused"]

ErrWaitTimeout == Errorf("timed out waiting for the condition")

\* (as condition, but the deadline-exceeded error is handed to the loop)
condition_SurfaceDeadline(createErr) ==
    IF createErr = None THEN [done |-> TRUE, err |-> None]
    ELSE [done |-> FALSE, err |-> createErr]

\* (as condition, but every error is retried)
condition_RetryAll(createErr) ==
    IF createErr = None THEN [done |-> TRUE, err |-> None]
    ELSE [done |-> FALSE, err |-> None]

\* The closure handed to ExponentialBackoff, after CreateVolume answered
\* createErr: the pair (done, error) it returns.
condition(createErr) ==
    IF createErr = None THEN [done |-> TRUE, err |-> None]
    ELSE IF createErr.grpc /\ createErr.code = "DeadlineExceeded"
    THEN [done |-> FALSE, err |-> None]
    ELSE [done |-> FALSE, err |-> createErr]

\* (as ExponentialBackoff, but one round more is made)
ExponentialBackoff_OneMore(i, c) ==
    IF c.err # None \/ c.done THEN [next |-> "return", err |-> c.err]
    ELSE IF i < backoffSteps THEN [next |-> "retry", err |-> None]
    ELSE [next |-> "return", err |-> ErrWaitTimeout]

\* One round of wait.ExponentialBackoff, i rounds having gone before and
\* the condition answering c: return c's error when it reports an error or
\* completion, go round again while steps are left, else ErrWaitTimeout.
ExponentialBackoff(i, c) ==
    IF c.err # None \/ c.done THEN [next |-> "return", err |-> c.err]
    ELSE IF i + 1 < backoffSteps THEN [next |-> "retry", err |-> None]
    ELSE [next |-> "return", err |-> ErrWaitTimeout]

CreateCall(outcome) == [op |-> "CreateVolume", outcome |-> outcome]
DeleteCall(id) == [op |-> "DeleteVolume", VolumeId |-> id]

\* (as CapacityTooSmall, with the operands exchanged)
CapacityTooSmall_Reversed(respCap, volSizeBytes) == Less(volSizeBytes, respCap)

\* (as CapacityTooSmall, but an equal capacity counts as too small)
CapacityTooSmall_OrEqual(respCap, volSizeBytes) == LessEq(respCap, volSizeBytes)

\* respCap < volSizeBytes
CapacityTooSmall(respCap, volSizeBytes) == Less(respCap, volSizeBytes)

ErrCapacity(respCap, volSizeBytes, cleanupErr) ==
    [msg |-> "created volume capacity less than requested capacity",
     respCap |-> respCap, volSizeBytes |-> volSizeBytes,
     cleanup |-> cleanupErr]

\* volumeAttributes: the identity first, then every attribute of the reply
VolumeAttributes(identity, attributes) ==
    [k \in {provisionerIDKey} \cup DOMAIN attributes |->
        IF k \in DOMAIN attributes THEN attributes[k] ELSE identity]

\* (as MakePV, but the node-stage reference is stored as the node-publish
\* reference too)
MakePV_StageAsPublish(name, respCap, volumeId, attributes, refs) ==
    [Name |-> name,
     Capacity |-> bytesToGiQuantity(respCap),
     CSI |-> [Driver |-> "DriverName",
              VolumeHandle |-> volumeId,
              VolumeAttributes |-> attributes,
              ControllerPublishSecretRef |-> refs.controllerPublish,
              NodeStageSecretRef |-> refs.nodeStage,
              NodePublishSecretRef |-> refs.nodeStage]]

\* The PersistentVolume Provision returns.
MakePV(name, respCap, volumeId, attributes, refs) ==
    [Name |-> name,
     Capacity |-> bytesToGiQuantity(respCap),
     CSI |-> [Driver |-> "DriverName",
              VolumeHandle |-> volumeId,
              VolumeAttributes |-> attributes,
              ControllerPublishSecretRef |-> refs.controllerPublish,
              NodeStageSecretRef |-> refs.nodeStage,
              NodePublishSecretRef |-> refs.nodePublish]]

(***************************************************************************)
(* Inputs: the provisioner's configuration, claims, storage-class          *)
(* parameters and the answers of the API server and of the driver.         *)
(***************************************************************************)
EmptyMap == [k \in {} |-> None]

PrefixPvc == <<"p", "v", "c">>
UidAbCd == <<"a", "b", "-", "c", "d">>
NsText == <<"n", "s">>
ClaimName == <<"c", "l", "m">>

Provisioners ==
    [identity : {"id-1"},
     volumeNamePrefix : {<<>>, PrefixPvc},
     volumeNameUUIDLength : {-1, 2, 5}]

DataSources ==
    {None} \cup
    [Name : {<<>>, <<"s", "1">>},
     Kind : {snapshotKind, "PersistentVolumeClaim"},
     APIGroup : {None, [val |-> snapshotAPIGroup], [val |-> "apps"]}]

RequestCaps == {MiB512, GiB1, GiB3, Bytes(Pow23, 1)}

AnnotationMaps == {EmptyMap, ("team" :> <<"t", "1">>)}

Claims ==
    [Name : {ClaimName},
     Namespace : {NsText},
     UID : {<<>>, UidAbCd},
     Annotations : AnnotationMaps,
     Selector : BOOLEAN,
     DataSource : DataSources,
     Request : {None} \cup RequestCaps]

Lit(text) == <<[lit |-> text]>>
Tok(name) == <<[tok |-> name]>>

LitSec == Lit(<<"s", "e", "c">>)
LitKs == Lit(<<"k", "s">>)
LitBad == Lit(<<"B", "a", "d", "_">>)
PvTpl == Lit(<<"s", "-">>) \o Tok(<<"pv.name">>)
PvcNsTpl == Tok(<<"pvc.namespace">>)
PvcNameTpl == Tok(<<"pvc.name">>)
AnnTpl == Tok(<<"pvc.annotations", "team">>)
TwoMissingTpl == Tok(<<"x">>) \o Lit(<<"-">>) \o Tok(<<"y">>)

ParamMaps ==
    { EmptyMap,
      (provisionerSecretNameKey :> LitSec),
      (provisionerSecretNameKey :> PvTpl) @@ (provisionerSecretNamespaceKey :> LitKs),
      (provisionerSecretNameKey :> PvcNameTpl) @@ (provisionerSecretNamespaceKey :> LitKs),
      (provisionerSecretNameKey :> LitSec) @@ (provisionerSecretNamespaceKey :> LitBad),
      (nodePublishSecretNameKey :> AnnTpl) @@ (nodePublishSecretNamespaceKey :> PvcNsTpl),
      (controllerPublishSecretNamespaceKey :> LitKs),
      (nodeStageSecretNameKey :> TwoMissingTpl) @@ (nodeStageSecretNamespaceKey :> LitKs),
      (provisionerSecretNameKey :> PvTpl) @@ (provisionerSecretNamespaceKey :> LitKs)
        @@ (controllerPublishSecretNameKey :> PvcNameTpl)
        @@ (controllerPublishSecretNamespaceKey :> PvcNsTpl)
        @@ (nodeStageSecretNameKey :> LitSec) @@ (nodeStageSecretNamespaceKey :> LitKs)
        @@ (nodePublishSecretNameKey :> AnnTpl)
        @@ (nodePublishSecretNamespaceKey :> PvcNsTpl) }

VolumeOptions == [PVC : Claims, Parameters : ParamMaps]

ApiError == Errorf("api server error")
NotRead == [err |-> None, obj |-> None]

\* What Get of the claim's snapshot may answer; the object found has the
\* namespace and the name it was asked for.
SnapshotGets(pvc) ==
    {[err |-> ApiError, obj |-> None]} \cup
    {[err |-> None, obj |-> o] :
        o \in [Ready : BOOLEAN, Deleting : BOOLEAN, UID : {"uid-s1"},
               Namespace : {pvc.Namespace}, Name : {pvc.DataSource.Name},
               RestoreSize : {None, MiB512, GiB1, GiB3}]}

SnapshotRefs(snapshotObj) ==
    {None,
     [UID |-> snapshotObj.UID, Namespace |-> snapshotObj.Namespace,
      Name |-> snapshotObj.Name],
     [UID |-> "uid-s2", Namespace |-> snapshotObj.Namespace,
      Name |-> snapshotObj.Name],
     [UID |-> snapshotObj.UID, Namespace |-> <<"o">>,
      Name |-> snapshotObj.Name],
     [UID |-> snapshotObj.UID, Namespace |-> snapshotObj.Namespace,
      Name |-> <<"s", "2">>]}

\* What Get of the snapshot's content object may answer.
ContentGets(snapshotObj) ==
    {[err |-> ApiError, obj |-> None]} \cup
    {[err |-> None, obj |-> o] :
        o \in [VolumeSnapshotRef : SnapshotRefs(snapshotObj),
               CSI : {None, [SnapshotHandle |-> "snap-h1"]}]}

SecretGets ==
    {[err |-> ApiError, data |-> None],
     [err |-> None, data |-> [token |-> "s3cr3t"]]}

ResponseCaps ==
    {Zero, MiB512, Bytes(0, 512 * MiB + 1), GiB1, GiB3, Bytes(3, 1),
     Bytes(Pow23, 1), Bytes(Pow23, 3)}

AttributeMaps ==
    {EmptyMap, ("pool" :> "fast"), (provisionerIDKey :> "id-other")}

\* What CreateVolume may answer: an error, a reply without a volume, or a
\* reply with a volume.
CreateReplies ==
    {[err |-> e, Volume |-> None] : e \in {DeadlineExceeded, Internal, PlainError}}
    \cup {[err |-> None, Volume |-> None]}
    \cup {[err |-> None, Volume |-> v] :
            v \in [Id : {"vol-1"}, CapacityBytes : ResponseCaps,
                   Attributes : AttributeMaps]}

DeleteReplies == {None, Internal}

(***************************************************************************)
(* State                                                                   *)
(***************************************************************************)
VARIABLES
    p,          \* the csiProvisioner: identity, volumeNamePrefix, volumeNameUUIDLength
    pc,         \* where the call in progress stands
    options,    \* the VolumeOptions Provision was called with
    pvName,     \* Provision's pvName
    req,        \* Provision's CreateVolumeRequest
    snapRead,   \* what getVolumeContentSource read: [snapGet, contentGet]
    refs,       \* the four secret references resolved by Provision
    step,       \* rounds of the backoff loop gone by
    rep,        \* the reply of the last CreateVolume call
    calls,      \* every call made to the API server and to the driver, in order
    result,     \* what the call returned
    sr,         \* a call of getSecretReference on its own: its arguments and result
    volume,     \* the PersistentVolume handed to Delete
    delRep,     \* the reply of the DeleteVolume call
    storageClass \* what Delete's read of the storage class answered

\* The attacher's start-up (cmd/attacher/main.go): waitForDriverReady.
VARIABLES
    clock,      \* the time, in seconds
    timeout,    \* waitForDriverReady's timeout argument, in seconds
    finish,     \* the deadline waitForDriverReady computed
    wpc,        \* where waitForDriverReady is
    probeLog,   \* the probes made: when each began and ended and its error
    wres        \* what waitForDriverReady returned

probeVars == <<clock, timeout, finish, wpc, probeLog, wres>>

\* The attacher's leader election and controller, one entry per instance.
VARIABLES
    leaderElection, \* the -leader-election flag each instance was started with
    mainPc,         \* where each instance's main is
    lock,           \* the instance that holds the leader lock, or 0
    elected,        \* whether waitForLeader has returned in the instance
    informers,      \* whether the instance's informers are started
    running,        \* whether the instance's controller loop runs
    driverCalls     \* the driver calls each instance's controller has made

haVars == <<leaderElection, mainPc, lock, elected, informers, running, driverCalls>>

\* The controller's work queue and its workers.
VARIABLES
    queue,      \* the identities waiting for a worker, in order
    dirty,      \* the identities that need a reconciliation
    processing, \* the identities a worker is reconciling
    worker      \* the identity each worker reconciles, or 0

queueVars == <<queue, dirty, processing, worker>>

attacherVars == <<probeVars, haVars, queueVars>>

vars == <<p, pc, options, pvName, req, snapRead, refs, step, rep, calls, result, sr,
          volume, delRep, storageClass, attacherVars>>

ProbeInit ==
    /\ clock = 0
    /\ timeout = 0
    /\ finish = 0
    /\ wpc = "idle"
    /\ probeLog = <<>>
    /\ wres = None

NumInstances == 2

Instances == 1 .. NumInstances

HAInit ==
    /\ leaderElection = [i \in Instances |-> FALSE]
    /\ mainPc = [i \in Instances |-> "gate"]
    /\ lock = 0
    /\ elected = [i \in Instances |-> FALSE]
    /\ informers = [i \in Instances |-> FALSE]
    /\ running = [i \in Instances |-> FALSE]
    /\ driverCalls = [i \in Instances |-> 0]

threads == 10

Workers == 1 .. threads

QueueInit ==
    /\ queue = <<>>
    /\ dirty = {}
    /\ processing = {}
    /\ worker = [w \in Workers |-> 0]

AttacherInit ==
    /\ ProbeInit
    /\ HAInit
    /\ QueueInit

NoRefs ==
    [provisioner |-> None, controllerPublish |-> None, nodeStage |-> None,
     nodePublish |-> None]

Init ==
    /\ p \in Provisioners
    /\ pc = "idle"
    /\ options = None
    /\ pvName = <<>>
    /\ req = None
    /\ snapRead = None
    /\ refs = NoRefs
    /\ step = 0
    /\ rep = None
    /\ calls = <<>>
    /\ result = NoResult
    /\ sr = None
    /\ volume = None
    /\ delRep = None
    /\ storageClass = None
    /\ AttacherInit

\* Provision returns (pv, e) or panics: the call is over.
Finish(r) ==
    /\ pc' = "done"
    /\ result' = r

\* Provision, lines 140-204: the selector and data-source checks, the
\* volume name and the request.
ProvisionBegin ==
    /\ pc = "idle"
    /\ \E o \in VolumeOptions :
        LET ds == CheckDataSource(o.PVC.DataSource)
            nm == makeVolumeName(p.volumeNamePrefix, o.PVC.UID,
                                 p.volumeNameUUIDLength)
        IN  /\ options' = o
            /\ IF o.PVC.Selector
               THEN /\ Finish(Returned(None, Errorf("claim Selector is not supported")))
                    /\ UNCHANGED <<pvName, req>>
               ELSE IF ds.out = "err"
               THEN /\ Finish(Returned(None, ds.err))
                    /\ UNCHANGED <<pvName, req>>
               ELSE IF ds.out = "panic" \/ nm.panic
               THEN /\ Finish(Panicked)
                    /\ UNCHANGED <<pvName, req>>
               ELSE IF nm.err # None
               THEN /\ Finish(Returned(None, nm.err))
                    /\ UNCHANGED <<pvName, req>>
               ELSE /\ pvName' = nm.name
                    /\ req' = [Name |-> nm.name,
                               Parameters |-> o.Parameters,
                               RequiredBytes |-> RequestedBytes(o.PVC),
                               VolumeContentSource |-> None,
                               ControllerCreateSecrets |-> None]
                    /\ pc' = IF ds.out = "ok" THEN "contentSource" ELSE "secrets"
                    /\ UNCHANGED result
    /\ UNCHANGED <<volume, delRep, storageClass, p, snapRead, refs, step, rep, calls, sr>>
    /\ UNCHANGED attacherVars

\* Provision, lines 206-212: the call of getVolumeContentSource.
ProvisionContentSource ==
    /\ pc = "contentSource"
    /\ \E snapGet \in SnapshotGets(options.PVC) :
       \E contentGet \in
            IF snapGet.err = None /\ snapGet.obj.Ready /\ ~snapGet.obj.Deleting
            THEN ContentGets(snapGet.obj) ELSE {NotRead} :
        LET got == getVolumeContentSource(options, snapGet, contentGet)
        IN  /\ snapRead' = [snapGet |-> snapGet, contentGet |-> contentGet]
            /\ calls' = calls \o got.reads
            /\ IF got.err # None
               THEN /\ Finish(Returned(None, ErrSnapshotHandle(got.err)))
                    /\ UNCHANGED req
               ELSE /\ req' = [req EXCEPT !.VolumeContentSource = got.src]
                    /\ pc' = "secrets"
                    /\ UNCHANGED result
    /\ UNCHANGED <<volume, delRep, storageClass, p, options, pvName, refs, step, rep, sr>>
    /\ UNCHANGED attacherVars

\* Provision, lines 218-242: the creation secret is resolved and fetched,
\* the three other secrets are resolved only.
ProvisionSecrets ==
    /\ pc = "secrets"
    /\ LET prov == getSecretReference(provisionerSecretNameKey,
                       provisionerSecretNamespaceKey, options.Parameters,
                       pvName, None)
           cpub == getSecretReference(controllerPublishSecretNameKey,
                       controllerPublishSecretNamespaceKey, options.Parameters,
                       pvName, options.PVC)
           stage == getSecretReference(nodeStageSecretNameKey,
                       nodeStageSecretNamespaceKey, options.Parameters,
                       pvName, options.PVC)
           npub == getSecretReference(nodePublishSecretNameKey,
                       nodePublishSecretNamespaceKey, options.Parameters,
                       pvName, options.PVC)
       IN  IF prov.err # None
           THEN /\ Finish(Returned(None, prov.err))
                /\ UNCHANGED <<req, refs, calls>>
           ELSE \E secretGet \in
                    IF prov.ref = None THEN {[err |-> None, data |-> None]}
                    ELSE SecretGets :
                LET cred == getCredentials(prov.ref, secretGet)
                IN  /\ calls' = calls \o cred.reads
                    /\ IF cred.err # None
                       THEN /\ Finish(Returned(None, cred.err))
                            /\ UNCHANGED <<req, refs>>
                       ELSE IF cpub.err # None
                       THEN /\ Finish(Returned(None, cpub.err))
                            /\ UNCHANGED <<req, refs>>
                       ELSE IF stage.err # None
                       THEN /\ Finish(Returned(None, stage.err))
                            /\ UNCHANGED <<req, refs>>
                       ELSE IF npub.err # None
                       THEN /\ Finish(Returned(None, npub.err))
                            /\ UNCHANGED <<req, refs>>
                       ELSE /\ req' = [req EXCEPT !.ControllerCreateSecrets =
                                                      cred.credentials]
                            /\ refs' = [provisioner |-> prov.ref,
                                        controllerPublish |-> cpub.ref,
                                        nodeStage |-> stage.ref,
                                        nodePublish |-> npub.ref]
                            /\ pc' = "create"
                            /\ UNCHANGED result
    /\ UNCHANGED <<volume, delRep, storageClass, p, options, pvName, snapRead, step, rep, sr>>
    /\ UNCHANGED attacherVars

\* Provision, lines 244-267: one round of the backoff loop, that is one
\* CreateVolume call, and what the loop does with its answer.
ProvisionCreate ==
    /\ pc = "create"
    /\ \E reply \in CreateReplies :
        LET c == condition(reply.err)
            b == ExponentialBackoff(step, c)
        IN  /\ calls' = Append(calls,
                    CreateCall(IF reply.err = None THEN "OK" ELSE reply.err.code))
            /\ rep' = reply
            /\ step' = step + 1
            /\ IF b.next = "retry"
               THEN UNCHANGED <<pc, result>>
               ELSE IF b.err # None
               THEN Finish(Returned(None, b.err))
               ELSE /\ pc' = "created"
                    /\ UNCHANGED result
    /\ UNCHANGED <<volume, delRep, storageClass, p, options, pvName, req, snapRead, refs, sr>>
    /\ UNCHANGED attacherVars

\* Provision, lines 269-331: the attributes, the capacity check with its
\* compensating DeleteVolume, and the PersistentVolume.
ProvisionFinish ==
    /\ pc = "created"
    /\ IF rep.Volume = None
       THEN \* rep.Volume.Attributes of a nil Volume
            /\ Finish(Panicked)
            /\ UNCHANGED <<calls, delRep>>
       ELSE LET volumeAttributes == VolumeAttributes(p.identity, rep.Volume.Attributes)
                respCap == rep.Volume.CapacityBytes
                volSizeBytes == RequestedBytes(options.PVC)
            IN  IF CapacityTooSmall(respCap, volSizeBytes)
                THEN \E delErr \in DeleteReplies :
                        /\ calls' = Append(calls, DeleteCall(rep.Volume.Id))
                        /\ delRep' = [err |-> delErr]
                        /\ Finish(Returned(None,
                               ErrCapacity(respCap, volSizeBytes, delErr)))
                ELSE /\ Finish(Returned(MakePV(pvName, respCap, rep.Volume.Id,
                                               volumeAttributes, refs), None))
                     /\ UNCHANGED <<calls, delRep>>
    /\ UNCHANGED <<volume, storageClass, p, options, pvName, req, snapRead, refs, step, rep, sr>>
    /\ UNCHANGED attacherVars

(***************************************************************************)
(* Delete                                                                  *)
(***************************************************************************)
ClassName == <<"s", "c">>

\* The volumes Delete may be handed: nil, a volume of another kind, and
\* volumes with a CSI source, of this driver or of another one.
Volumes ==
    {None} \cup
    [Name : {PrefixPvc \o <<"-">> \o UidAbCd},
     StorageClassName : {<<>>, ClassName},
     CSI : {None} \cup [Driver : {"DriverName", "other.driver"},
                        VolumeHandle : {"vol-1"}]]

\* The parameters the volume's storage class may hold at delete time.
ClassParamMaps ==
    ParamMaps \cup
    {(provisionerSecretNameKey :> LitSec \o PvcNameTpl)
        @@ (provisionerSecretNamespaceKey :> LitKs),
     (provisionerSecretNameKey :> LitSec)
        @@ (provisionerSecretNamespaceKey :> PvcNsTpl),
     (provisionerSecretNameKey :> LitSec \o AnnTpl)
        @@ (provisionerSecretNamespaceKey :> LitKs)}

\* What Get of the storage class may answer.
StorageClassGets ==
    {[err |-> ApiError, obj |-> None]} \cup
    {[err |-> None, obj |-> [Parameters |-> m]] : m \in ClassParamMaps}

ReadStorageClass(name) == [op |-> "GetStorageClass", name |-> name]

volumeHandleToId(handle) == handle

\* (as InvalidPV, but a source that names another driver is refused too)
InvalidPV_ChecksDriver(v) ==
    \/ v = None
    \/ v.CSI = None
    \/ v.CSI.Driver # "DriverName"

\* volume == nil || volume.Spec.CSI == nil
InvalidPV(v) == v = None \/ v.CSI = None

\* (as DeleteSecrets, but a storage class that cannot be read is an error)
DeleteSecrets_FailsUnreadable(scGet, name, secretGet) ==
    IF scGet.err # None
    THEN [credentials |-> None, err |-> scGet.err, reads |-> <<>>]
    ELSE LET prov == getSecretReference(provisionerSecretNameKey,
                         provisionerSecretNamespaceKey, scGet.obj.Parameters,
                         name, None)
         IN  IF prov.err # None
             THEN [credentials |-> None, err |-> prov.err, reads |-> <<>>]
             ELSE getCredentials(prov.ref, secretGet)

\* (as DeleteSecrets, but the secret is resolved without the volume's name)
DeleteSecrets_NoVolumeName(scGet, name, secretGet) ==
    IF scGet.err # None
    THEN [credentials |-> None, err |-> None, reads |-> <<>>]
    ELSE LET prov == getSecretReference(provisionerSecretNameKey,
                         provisionerSecretNamespaceKey, scGet.obj.Parameters,
                         <<>>, None)
         IN  IF prov.err # None
             THEN [credentials |-> None, err |-> prov.err, reads |-> <<>>]
             ELSE getCredentials(prov.ref, secretGet)

\* Delete, lines 411-424, given what the read of the storage class
\* answered: [credentials, err, reads].  A class that cannot be read is
\* passed over.
DeleteSecrets(scGet, name, secretGet) ==
    IF scGet.err # None
    THEN [credentials |-> None, err |-> None, reads |-> <<>>]
    ELSE LET prov == getSecretReference(provisionerSecretNameKey,
                         provisionerSecretNamespaceKey, scGet.obj.Parameters,
                         name, None)
         IN  IF prov.err # None
             THEN [credentials |-> None, err |-> prov.err, reads |-> <<>>]
             ELSE getCredentials(prov.ref, secretGet)

\* (as DeleteResult, but the driver's error is wrapped)
DeleteResult_Wrapped(delErr) ==
    IF delErr = None THEN None
    ELSE [msg |-> "failed to delete volume", cause |-> delErr]

\* Delete, lines 430-432: the error of the DeleteVolume call is returned.
DeleteResult(delErr) == delErr

FinishDelete(e) ==
    /\ pc' = "deleted"
    /\ result' = Returned(None, e)

\* Delete, lines 400-410: the check of the volume and the request.
DeleteBegin ==
    /\ pc = "idle"
    /\ \E v \in Volumes :
        /\ volume' = v
        /\ IF InvalidPV(v)
           THEN /\ FinishDelete(Errorf("invalid CSI PV"))
                /\ UNCHANGED req
           ELSE /\ req' = [VolumeId |-> volumeHandleToId(v.CSI.VolumeHandle),
                           ControllerDeleteSecrets |-> None]
                /\ pc' = IF Len(v.StorageClassName) # 0
                         THEN "storageClass" ELSE "deleteVolume"
                /\ UNCHANGED result
    /\ UNCHANGED <<delRep, storageClass, p, options, pvName, snapRead, refs, step, rep, calls, sr>>
    /\ UNCHANGED attacherVars

\* Delete, lines 411-426: the storage class is read and, when it could be,
\* the creation secret is resolved and fetched.
DeleteStorageClass ==
    /\ pc = "storageClass"
    /\ \E scGet \in StorageClassGets, secretGet \in SecretGets :
        LET s == DeleteSecrets(scGet, volume.Name, secretGet)
        IN  /\ storageClass' = scGet
            /\ calls' = Append(calls, ReadStorageClass(volume.StorageClassName))
                            \o s.reads
            /\ IF s.err # None
               THEN /\ FinishDelete(s.err)
                    /\ UNCHANGED req
               ELSE /\ req' = [req EXCEPT !.ControllerDeleteSecrets = s.credentials]
                    /\ pc' = "deleteVolume"
                    /\ UNCHANGED result
    /\ UNCHANGED <<volume, delRep, p, options, pvName, snapRead, refs, step, rep, sr>>
    /\ UNCHANGED attacherVars

\* Delete, lines 427-432: the one DeleteVolume call.
DeleteVolume ==
    /\ pc = "deleteVolume"
    /\ \E delErr \in DeleteReplies :
        /\ calls' = Append(calls, DeleteCall(req.VolumeId))
        /\ delRep' = [err |-> delErr]
        /\ FinishDelete(DeleteResult(delErr))
    /\ UNCHANGED <<volume, storageClass, p, options, pvName, req, snapRead, refs, step, rep, sr>>
    /\ UNCHANGED attacherVars

Next ==
    \/ ProvisionBegin
    \/ ProvisionContentSource
    \/ ProvisionSecrets
    \/ ProvisionCreate
    \/ ProvisionFinish
    \/ DeleteBegin
    \/ DeleteStorageClass
    \/ DeleteVolume

Spec == Init /\ [][Next]_vars

(***************************************************************************)
(* A volume's life: Provision returns it and Delete is then called on it,  *)
(* the volume naming a storage class.                                      *)
(***************************************************************************)
\* Delete, lines 400-410, called on the volume Provision returned.
DeleteProvisioned ==
    /\ pc = "done"
    /\ result.kind = "return"
    /\ result.pv # None
    /\ volume' = [Name |-> result.pv.Name, StorageClassName |-> ClassName,
                  CSI |-> result.pv.CSI]
    /\ req' = [VolumeId |-> volumeHandleToId(result.pv.CSI.VolumeHandle),
               ControllerDeleteSecrets |-> None]
    /\ pc' = "storageClass"
    /\ UNCHANGED <<delRep, storageClass, p, options, pvName, snapRead, refs, step,
                   rep, calls, result, sr>>
    /\ UNCHANGED attacherVars

NextLifecycle ==
    \/ ProvisionBegin
    \/ ProvisionContentSource
    \/ ProvisionSecrets
    \/ ProvisionCreate
    \/ ProvisionFinish
    \/ DeleteProvisioned
    \/ DeleteStorageClass
    \/ DeleteVolume

SpecLifecycle == Init /\ [][NextLifecycle]_vars

(***************************************************************************)
(* The secret reference resolver on its own: getSecretReference and        *)
(* resolveTemplate are pure, so they are applied to arguments drawn from   *)
(* the sets below.                                                         *)
(***************************************************************************)
LitDotted == Lit(<<"a", ".", "b">>)

Templates ==
    {<<>>, LitSec, LitKs, LitBad, LitDotted, PvTpl, PvcNsTpl, PvcNameTpl,
     AnnTpl, TwoMissingTpl, PvcNameTpl \o Lit(<<"-">>) \o AnnTpl,
     TwoMissingTpl \o Tok(<<"pvc.name">>)}

\* A parameter map holding the two keys, each with a template or absent.
PairMaps(nameKey, namespaceKey) ==
    {nameMap @@ namespaceMap :
        nameMap \in {EmptyMap} \cup {(nameKey :> t) : t \in Templates},
        namespaceMap \in {EmptyMap} \cup {(namespaceKey :> t) : t \in Templates}}

ClaimContexts ==
    {None} \cup
    [Name : {ClaimName, <<"o", "t", "h">>},
     Namespace : {NsText},
     Annotations : AnnotationMaps]

VolumeNames == {PrefixPvc \o <<"-">> \o UidAbCd, <<"P", "V">>}

TokenMaps ==
    {NameParams(pvName_, pvc) : pvName_ \in VolumeNames, pvc \in ClaimContexts}
    \cup {NamespaceParams(pvName_, pvc) : pvName_ \in VolumeNames, pvc \in ClaimContexts}

CallGetSecretReference ==
    /\ sr = None
    /\ \E params \in PairMaps(nodePublishSecretNameKey, nodePublishSecretNamespaceKey),
          name \in VolumeNames, pvc \in ClaimContexts :
        sr' = [fn |-> "getSecretReference",
               nameKey |-> nodePublishSecretNameKey,
               namespaceKey |-> nodePublishSecretNamespaceKey,
               storageClassParams |-> params, pvName |-> name, pvc |-> pvc,
               out |-> getSecretReference(nodePublishSecretNameKey,
                           nodePublishSecretNamespaceKey, params, name, pvc)]
    /\ UNCHANGED <<volume, delRep, storageClass, p, pc, options, pvName, req, snapRead, refs, step, rep, calls, result>>
    /\ UNCHANGED attacherVars

CallResolveTemplate ==
    /\ sr = None
    /\ \E template \in Templates, params \in TokenMaps :
        sr' = [fn |-> "resolveTemplate", template |-> template,
               params |-> params, out |-> resolveTemplate(template, params)]
    /\ UNCHANGED <<volume, delRep, storageClass, p, pc, options, pvName, req, snapRead, refs, step, rep, calls, result>>
    /\ UNCHANGED attacherVars

NextSecretRef ==
    \/ CallGetSecretReference
    \/ CallResolveTemplate

SpecSecretRef == Init /\ [][NextSecretRef]_vars

(***************************************************************************)
(* The attacher's start-up: waitForDriverReady.  Time is counted in whole  *)
(* seconds; a probe runs under a context with the same timeout, so it      *)
(* takes between no time and the timeout.                                  *)
(***************************************************************************)
MaxTimeout == 3
MaxProbeTime == 2

Timeouts == 0 .. MaxTimeout

ProbeError == Errorf("probe failed")

ProbeTimes(t) == 0 .. (IF t < MaxProbeTime THEN t ELSE MaxProbeTime)

\* (as DeadlinePassed, but the deadline itself counts as passed)
DeadlinePassed_NotBefore(now, deadline) == ~(now < deadline)

\* now.After(finish)
DeadlinePassed(now, deadline) == now > deadline

ErrFailedToProbe(cause) == [msg |-> "Failed to probe the attacher", cause |-> cause]

\* waitForDriverReady, lines 185-187, called on lines 114-118.
WaitForDriverReady ==
    /\ wpc = "idle"
    /\ \E t \in Timeouts :
        /\ timeout' = t
        /\ finish' = clock + t
    /\ wpc' = "probe"
    /\ UNCHANGED <<clock, probeLog, wres, haVars, queueVars>>

\* waitForDriverReady, lines 189-201: one probe and what the loop does with
\* its answer.
Probe ==
    /\ wpc = "probe"
    /\ \E d \in ProbeTimes(timeout), err \in {None, ProbeError} :
        /\ clock' = clock + d
        /\ probeLog' = Append(probeLog,
                           [began |-> clock, ended |-> clock + d, err |-> err])
        /\ IF err = None
           THEN /\ wres' = [err |-> None]
                /\ wpc' = "returned"
           ELSE IF DeadlinePassed(clock + d, finish)
           THEN /\ wres' = [err |-> ErrFailedToProbe(err)]
                /\ wpc' = "returned"
           ELSE /\ wpc' = "sleep"
                /\ UNCHANGED wres
    /\ UNCHANGED <<timeout, finish, haVars, queueVars>>

\* waitForDriverReady, line 202: time.Sleep(time.Second)
Sleep ==
    /\ wpc = "sleep"
    /\ clock' = clock + 1
    /\ wpc' = "probe"
    /\ UNCHANGED <<timeout, finish, probeLog, wres, haVars, queueVars>>

\* main, lines 115-118: a driver that is not ready ends the process.
MainDriverReady ==
    /\ wpc = "returned"
    /\ wpc' = IF wres.err # None THEN "exited" ELSE "ready"
    /\ UNCHANGED <<clock, timeout, finish, probeLog, wres, haVars, queueVars>>

ProvisionerIdle ==
    UNCHANGED <<p, pc, options, pvName, req, snapRead, refs, step, rep, calls,
                result, sr, volume, delRep, storageClass>>

AttacherStart ==
    /\ Init
    /\ p = [identity |-> "id-1", volumeNamePrefix |-> PrefixPvc,
            volumeNameUUIDLength |-> -1]

NextProbe ==
    \/ WaitForDriverReady /\ ProvisionerIdle
    \/ Probe /\ ProvisionerIdle
    \/ Sleep /\ ProvisionerIdle
    \/ MainDriverReady /\ ProvisionerIdle

SpecProbe == AttacherStart /\ [][NextProbe]_vars

\* The process runs on: a probe returns within its context's timeout and a
\* sleep ends.
SpecProbeFair == SpecProbe /\ WF_vars(NextProbe)

(***************************************************************************)
(* The attacher's leader election: several instances of main, from the     *)
(* leader-election block on.  waitForLeader and what follows the loss of   *)
(* the lock are not part of main.go; they follow the contract of the       *)
(* lock: acquiring blocks until the lock is held, and an instance that     *)
(* loses the lock stops.                                                   *)
(***************************************************************************)
MaxDriverCalls == 2

\* (as AfterGate, but main does not wait for the lock)
AfterGate_NoWait(enableLeaderElection) == "newController"

\* main, lines 139-154: with leader election main goes through
\* waitForLeader before it builds the controller.
AfterGate(enableLeaderElection) ==
    IF enableLeaderElection THEN "waitForLeader" ELSE "newController"

\* os.Exit, or main returning: the whole process, its informers and its
\* controller loop included, is gone.
Exited(i) ==
    /\ mainPc' = [mainPc EXCEPT ![i] = "exited"]
    /\ informers' = [informers EXCEPT ![i] = FALSE]
    /\ running' = [running EXCEPT ![i] = FALSE]

\* main, lines 139-152: the leader-election flags are read and checked.
MainGate(i) ==
    /\ mainPc[i] = "gate"
    /\ \E enableLeaderElection \in BOOLEAN, flagsSet \in BOOLEAN :
        /\ leaderElection' = [leaderElection EXCEPT ![i] = enableLeaderElection]
        /\ IF enableLeaderElection /\ ~flagsSet
           THEN Exited(i)
           ELSE /\ mainPc' = [mainPc EXCEPT ![i] = AfterGate(enableLeaderElection)]
                /\ UNCHANGED <<informers, running>>
    /\ UNCHANGED <<lock, elected, driverCalls, probeVars, queueVars>>

\* waitForLeader, line 151: returns once this instance holds the lock.
WaitForLeader(i) ==
    /\ mainPc[i] = "waitForLeader"
    /\ lock = 0
    /\ lock' = i
    /\ elected' = [elected EXCEPT ![i] = TRUE]
    /\ mainPc' = [mainPc EXCEPT ![i] = "newController"]
    /\ UNCHANGED <<leaderElection, informers, running, driverCalls, probeVars, queueVars>>

\* main, lines 154-167: the controller is built and the informers started.
StartInformers(i) ==
    /\ mainPc[i] = "newController"
    /\ informers' = [informers EXCEPT ![i] = TRUE]
    /\ mainPc' = [mainPc EXCEPT ![i] = "run"]
    /\ UNCHANGED <<leaderElection, lock, elected, running, driverCalls, probeVars, queueVars>>

\* main, lines 168-173: go ctrl.Run(threads, stopCh), then main waits for
\* SIGINT.
RunController(i) ==
    /\ mainPc[i] = "run"
    /\ running' = [running EXCEPT ![i] = TRUE]
    /\ mainPc' = [mainPc EXCEPT ![i] = "signal"]
    /\ UNCHANGED <<leaderElection, lock, elected, informers, driverCalls, probeVars, queueVars>>

\* A worker of the running controller calls the driver.
Reconcile(i) ==
    /\ running[i]
    /\ driverCalls[i] < MaxDriverCalls
    /\ driverCalls' = [driverCalls EXCEPT ![i] = @ + 1]
    /\ UNCHANGED <<leaderElection, mainPc, lock, elected, informers, running, probeVars, queueVars>>

\* main, lines 173-175: SIGINT closes stopCh and main returns.
Interrupt(i) ==
    /\ mainPc[i] = "signal"
    /\ Exited(i)
    /\ UNCHANGED <<leaderElection, lock, elected, driverCalls, probeVars, queueVars>>

\* (as LoseLock, but the instance goes on as it was)
LoseLock_KeepsRunning(i) ==
    /\ lock = i
    /\ mainPc[i] # "exited"
    /\ lock' = 0
    /\ UNCHANGED <<leaderElection, mainPc, informers, running, elected,
                   driverCalls, probeVars, queueVars>>

\* The holder loses the lock: it stops.
LoseLock(i) ==
    /\ lock = i
    /\ mainPc[i] # "exited"
    /\ lock' = 0
    /\ Exited(i)
    /\ UNCHANGED <<leaderElection, elected, driverCalls, probeVars, queueVars>>

\* The lock of a holder that is gone runs out.
LockExpires(i) ==
    /\ lock = i
    /\ mainPc[i] = "exited"
    /\ lock' = 0
    /\ UNCHANGED <<leaderElection, mainPc, informers, running, elected,
                   driverCalls, probeVars, queueVars>>

NextHA ==
    \/ \E i \in Instances : MainGate(i) /\ ProvisionerIdle
    \/ \E i \in Instances : WaitForLeader(i) /\ ProvisionerIdle
    \/ \E i \in Instances : StartInformers(i) /\ ProvisionerIdle
    \/ \E i \in Instances : RunController(i) /\ ProvisionerIdle
    \/ \E i \in Instances : Reconcile(i) /\ ProvisionerIdle
    \/ \E i \in Instances : Interrupt(i) /\ ProvisionerIdle
    \/ \E i \in Instances : LoseLock(i) /\ ProvisionerIdle
    \/ \E i \in Instances : LockExpires(i) /\ ProvisionerIdle

SpecHA == AttacherStart /\ [][NextHA]_vars

(***************************************************************************)
(* The controller main starts with ctrl.Run(threads, stopCh): a pool of    *)
(* workers draining one deduplicating work queue of AttachmentRequest      *)
(* identities.  The controller is in pkg/attacher; the queue follows its   *)
(* description: an identity that is already waiting is not queued again,   *)
(* one that is being reconciled waits until its worker is done.            *)
(***************************************************************************)
NumRequests == 2

Requests == 1 .. NumRequests

\* (as Add, but every event puts the identity on the queue)
Add_NoCoalescing(q, d, pr, k) ==
    [queue |-> Append(q, k), dirty |-> d \cup {k}]

\* An identity is added to the queue: [queue, dirty]
Add(q, d, pr, k) ==
    IF k \in d THEN [queue |-> q, dirty |-> d]
    ELSE [queue |-> IF k \in pr THEN q ELSE Append(q, k), dirty |-> d \cup {k}]

\* A change notification or the resync names an AttachmentRequest.
Event(k) ==
    /\ LET a == Add(queue, dirty, processing, k)
       IN  /\ queue' = a.queue
           /\ dirty' = a.dirty
    /\ UNCHANGED <<processing, worker, probeVars, haVars>>

\* An idle worker takes the head of the queue.
WorkerGet(w) ==
    /\ worker[w] = 0
    /\ queue # <<>>
    /\ worker' = [worker EXCEPT ![w] = Head(queue)]
    /\ queue' = Tail(queue)
    /\ processing' = processing \cup {Head(queue)}
    /\ dirty' = dirty \ {Head(queue)}
    /\ UNCHANGED <<probeVars, haVars>>

\* A worker ends its reconciliation; a failed one is added again; an
\* identity that became dirty meanwhile goes back on the queue.
WorkerDone(w) ==
    /\ worker[w] # 0
    /\ \E failed \in BOOLEAN :
        LET k == worker[w]
            a == IF failed THEN Add(queue, dirty, processing, k)
                 ELSE [queue |-> queue, dirty |-> dirty]
        IN  /\ processing' = processing \ {k}
            /\ dirty' = a.dirty
            /\ queue' = IF k \in a.dirty THEN Append(a.queue, k) ELSE a.queue
    /\ worker' = [worker EXCEPT ![w] = 0]
    /\ UNCHANGED <<probeVars, haVars>>

NextQueue ==
    \/ \E k \in Requests : Event(k) /\ ProvisionerIdle
    \/ \E w \in Workers : WorkerGet(w) /\ ProvisionerIdle
    \/ \E w \in Workers : WorkerDone(w) /\ ProvisionerIdle

SpecQueue == AttacherStart /\ [][NextQueue]_vars

(***************************************************************************)
(* Properties                                                              *)
(***************************************************************************)
CreateCalls == SelectSeq(calls, LAMBDA c : c.op = "CreateVolume")
DeleteCalls == SelectSeq(calls, LAMBDA c : c.op = "DeleteVolume")

AllDeadlineExceeded ==
    /\ Len(CreateCalls) > 0
    /\ \A i \in 1..Len(CreateCalls) : CreateCalls[i].outcome = "DeadlineExceeded"

Failed == result.kind = "return" /\ result.pv = None /\ result.err # None

\* The driver answered CreateVolume with a volume smaller than requested.
UnderAllocated ==
    /\ rep # None
    /\ rep.err = None
    /\ rep.Volume # None
    /\ Less(rep.Volume.CapacityBytes, RequestedBytes(options.PVC))

\* C1: when CreateVolume succeeds with a capacity strictly below the
\* requested capacity, Provision returns no volume but the capacity error,
\* and has made exactly one DeleteVolume call, for the volume id of the
\* reply, whether that call succeeded or failed.
C1_CapacityViolation ==
    (pc = "done" /\ UnderAllocated) =>
        /\ Failed
        /\ result.err.msg = "created volume capacity less than requested capacity"
        /\ DeleteCalls = <<DeleteCall(rep.Volume.Id)>>

C1_Witness ==
    /\ pc = "done"
    /\ UnderAllocated
    /\ options.PVC.Request = GiB1
    /\ rep.Volume.CapacityBytes = MiB512
    /\ result.err.cleanup = Internal
    /\ Len(DeleteCalls) = 1

\* C2: while every CreateVolume attempt answers deadline-exceeded, Provision
\* goes on until it has made backoffSteps attempts, never more, and has then
\* failed.
C2_ExactlyNAttempts ==
    AllDeadlineExceeded =>
        /\ Len(CreateCalls) <= backoffSteps
        /\ Len(CreateCalls) < backoffSteps => pc = "create"
        /\ Len(CreateCalls) = backoffSteps => pc = "done" /\ Failed

C2_Witness ==
    /\ AllDeadlineExceeded
    /\ Len(CreateCalls) = backoffSteps
    /\ pc = "done"
    /\ Failed

\* C3 as claimed: after a loop of deadline-exceeded attempts only, Provision
\* returns the last attempt's deadline-exceeded error.
C3_ReturnsLastError ==
    (pc = "done" /\ AllDeadlineExceeded) => result.err = DeadlineExceeded

\* C3, amended: after a loop of deadline-exceeded attempts only, Provision
\* returns the timeout error of the backoff loop, not the error of an attempt.
C3_ReturnsWaitTimeout ==
    (pc = "done" /\ AllDeadlineExceeded) =>
        /\ Failed
        /\ result.err = ErrWaitTimeout
        /\ rep.err = DeadlineExceeded

C3_Witness ==
    /\ pc = "done"
    /\ AllDeadlineExceeded
    /\ Len(CreateCalls) = backoffSteps
    /\ result.err = ErrWaitTimeout

\* C4: only a deadline-exceeded answer is followed by another CreateVolume
\* attempt; any other error ends the call with that very error, and a
\* successful answer ends the loop.
C4_OnlyDeadlineRetries ==
    /\ \A i \in 1..(Len(CreateCalls) - 1) : CreateCalls[i].outcome = "DeadlineExceeded"
    /\ (rep # None /\ rep.err # None /\ rep.err # DeadlineExceeded) =>
            /\ pc = "done"
            /\ result = Returned(None, rep.err)
    /\ (rep # None /\ rep.err = None) => pc \in {"created", "done"}

C4_Witness ==
    /\ pc = "done"
    /\ Len(CreateCalls) = 3
    /\ rep.err = Internal
    /\ result = Returned(None, Internal)

\* C5 as claimed: the capacity of every volume Provision returns is at least
\* the requested capacity.
C5_CapacityAtLeastRequested ==
    (pc = "done" /\ result.pv # None) =>
        LessEq(RequestedBytes(options.PVC), QuantityValue(result.pv.Capacity))

C5_Witness ==
    /\ pc = "done"
    /\ result.pv # None
    /\ options.PVC.Request = GiB3
    /\ rep.Volume.CapacityBytes = GiB3
    /\ result.pv.Capacity = [num |-> 3, suffix |-> "Gi"]

\* What getVolumeContentSource read, and the ways its checks are failed.
SnapshotFound == snapRead # None /\ snapRead.snapGet.err = None
SnapshotRead == snapRead.snapGet.obj
ContentFound ==
    /\ SnapshotFound
    /\ snapRead.contentGet # NotRead
    /\ snapRead.contentGet.err = None
ContentRead == snapRead.contentGet.obj

SnapshotNotReady == SnapshotFound /\ ~SnapshotRead.Ready
SnapshotBeingDeleted == SnapshotFound /\ SnapshotRead.Deleting
ContentNotBound == ContentFound /\ ContentRead.VolumeSnapshotRef = None
ContentBoundElsewhere ==
    /\ ContentFound
    /\ ContentRead.VolumeSnapshotRef # None
    /\ ContentRead.VolumeSnapshotRef #
          [UID |-> SnapshotRead.UID, Namespace |-> SnapshotRead.Namespace,
           Name |-> SnapshotRead.Name]
ContentWithoutHandle == ContentFound /\ ContentRead.CSI = None

FailedWith(e) == pc = "done" /\ result = Returned(None, e)

\* C6 as claimed: each of the five failures of the content source ends
\* Provision with the same "not bound or invalid" error.
C6_IdenticalMessage ==
    (\/ SnapshotNotReady
     \/ SnapshotBeingDeleted
     \/ ContentNotBound
     \/ ContentBoundElsewhere
     \/ ContentWithoutHandle) => FailedWith(ErrSnapshotHandle(NotBoundOrInvalid))

\* C6, amended: each of the five failures ends Provision with an error and
\* without a CreateVolume call; the error is the same "not bound or invalid"
\* for a content object that is not bound, bound to another snapshot or
\* without a snapshot handle, "is not Ready" for a snapshot that is not
\* ready, and "is currently being deleted" for a ready snapshot under
\* deletion.
C6_Messages ==
    /\ SnapshotNotReady =>
          FailedWith(ErrSnapshotHandle(Errorf("snapshot is not Ready")))
    /\ (SnapshotBeingDeleted /\ ~SnapshotNotReady) =>
          FailedWith(ErrSnapshotHandle(Errorf("snapshot is currently being deleted")))
    /\ (ContentNotBound \/ ContentBoundElsewhere \/ ContentWithoutHandle) =>
          FailedWith(ErrSnapshotHandle(NotBoundOrInvalid))
    /\ (\/ SnapshotNotReady
        \/ SnapshotBeingDeleted
        \/ ContentNotBound
        \/ ContentBoundElsewhere
        \/ ContentWithoutHandle) => Len(CreateCalls) = 0

C6_Witness ==
    /\ ContentBoundElsewhere
    /\ ContentRead.VolumeSnapshotRef.UID # SnapshotRead.UID
    /\ ContentRead.CSI # None
    /\ FailedWith(ErrSnapshotHandle(NotBoundOrInvalid))

\* Every check of getVolumeContentSource before the restore-size check passed.
ContentSourceBound ==
    /\ ContentFound
    /\ SnapshotRead.Ready
    /\ ~SnapshotRead.Deleting
    /\ ~ContentNotBound
    /\ ~ContentBoundElsewhere
    /\ ~ContentWithoutHandle

\* C7: a snapshot whose restore size is larger than the requested capacity
\* fails Provision before any CreateVolume call; a requested capacity equal
\* to or larger than the restore size passes the check, and the snapshot
\* handle goes into the request.
C7_RestoreSize ==
    ContentSourceBound =>
        LET restore == SnapshotRead.RestoreSize
            request == options.PVC.Request
        IN  /\ (restore # None /\ request # None /\ Less(request, restore)) =>
                /\ FailedWith(ErrSnapshotHandle(Errorf(
                      "requested volume size is less than the size for the source snapshot")))
                /\ Len(CreateCalls) = 0
            /\ (restore = None \/ (request # None /\ LessEq(restore, request))) =>
                req.VolumeContentSource =
                    [Snapshot |-> ContentRead.CSI.SnapshotHandle]

C7_Witness ==
    /\ ContentSourceBound
    /\ SnapshotRead.RestoreSize = GiB3
    /\ options.PVC.Request = GiB1
    /\ pc = "done"
    /\ Failed

C7_WitnessEqual ==
    /\ ContentSourceBound
    /\ SnapshotRead.RestoreSize = GiB1
    /\ options.PVC.Request = GiB1
    /\ result.pv # None

\* The claim declares a content source of another kind or API group than
\* the supported one, or of no API group.
UnsupportedDataSource ==
    /\ options # None
    /\ options.PVC.DataSource # None
    /\ \/ options.PVC.DataSource.Kind # snapshotKind
       \/ options.PVC.DataSource.APIGroup # [val |-> snapshotAPIGroup]

UnsupportedRequestMessages ==
    {"claim Selector is not supported",
     "the PVC source not found",
     "the PVC source is not the right type",
     "the PVC source does not belong to the right APIGroup"}

\* C8 as claimed: a claim with an unsupported content source (a content
\* source without API group included) makes Provision return an
\* unsupported-request error, with no read of a snapshot object and no call
\* of the driver.
C8_UnsupportedSourceFails ==
    UnsupportedDataSource =>
        /\ pc = "done"
        /\ Failed
        /\ result.err.msg \in UnsupportedRequestMessages
        /\ calls = <<>>

\* A call of getSecretReference / of resolveTemplate has been made.
SecretReferenceCalled == sr # None /\ sr.fn = "getSecretReference"
TemplateResolved == sr # None /\ sr.fn = "resolveTemplate"

NameTemplateSet == sr.nameKey \in DOMAIN sr.storageClassParams
NamespaceTemplateSet == sr.namespaceKey \in DOMAIN sr.storageClassParams

\* C9: with exactly one of the name and namespace templates set,
\* getSecretReference returns the "must be specified together" error and no
\* reference; with neither set it returns no reference and no error,
\* whatever the volume name and the claim are.
C9_SpecifiedTogether ==
    SecretReferenceCalled =>
        /\ (NameTemplateSet # NamespaceTemplateSet) =>
              sr.out = [ref |-> None,
                        err |-> MustBeSpecifiedTogether(sr.nameKey, sr.namespaceKey)]
        /\ (~NameTemplateSet /\ ~NamespaceTemplateSet) =>
              sr.out = [ref |-> None, err |-> None]

C9_Witness ==
    /\ SecretReferenceCalled
    /\ NameTemplateSet
    /\ ~NamespaceTemplateSet
    /\ sr.storageClassParams[sr.nameKey] = PvcNameTpl
    /\ sr.pvc # None
    /\ sr.out.ref = None
    /\ sr.out.err.msg = "parameters must be specified together"

C9_WitnessNeither ==
    /\ SecretReferenceCalled
    /\ ~NameTemplateSet
    /\ ~NamespaceTemplateSet
    /\ sr.pvc # None
    /\ sr.out = [ref |-> None, err |-> None]

\* The tokens a template refers to, and the tokens a call can resolve.
TokensOf(template) ==
    {template[i].tok : i \in {j \in 1..Len(template) : IsTok(template[j])}}

NamespaceTokens(pvc) ==
    {<<"pv.name">>} \cup (IF pvc = None THEN {} ELSE {<<"pvc.namespace">>})

NameTokens(pvc) ==
    {<<"pv.name">>} \cup
    (IF pvc = None THEN {}
     ELSE {<<"pvc.name">>, <<"pvc.namespace">>}
          \cup {<<"pvc.annotations", k>> : k \in DOMAIN pvc.Annotations})

\* C10: resolving a template with tokens that the context does not hold
\* fails with an error that lists every such token of the template; in
\* getSecretReference no reference is returned, and the error is that of the
\* namespace template when it has such tokens, and that of the name template
\* when the namespace template resolved to a valid namespace.
C10_AllMissingTokens ==
    /\ TemplateResolved =>
          LET missing == TokensOf(sr.template) \ DOMAIN sr.params
          IN  missing # {} =>
                  sr.out = [val |-> <<>>, err |-> InvalidTokens(missing)]
    /\ SecretReferenceCalled =>
          LET nameT == Lookup(sr.storageClassParams, sr.nameKey)
              namespaceT == Lookup(sr.storageClassParams, sr.namespaceKey)
              nameMissing == TokensOf(nameT) \ NameTokens(sr.pvc)
              namespaceMissing == TokensOf(namespaceT) \ NamespaceTokens(sr.pvc)
              namespaceValid ==
                  /\ namespaceMissing = {}
                  /\ IsDNS1123Label(Expand(namespaceT,
                                           NamespaceParams(sr.pvName, sr.pvc)))
          IN  /\ (nameMissing # {} \/ namespaceMissing # {}) =>
                    sr.out.ref = None /\ sr.out.err # None
              /\ (Len(nameT) > 0 /\ namespaceMissing # {}) =>
                    sr.out.err = ErrResolving(sr.namespaceKey, namespaceT,
                                              InvalidTokens(namespaceMissing))
              /\ (namespaceValid /\ nameMissing # {}) =>
                    sr.out.err = ErrResolving(sr.nameKey, nameT,
                                              InvalidTokens(nameMissing))

C10_Witness ==
    /\ TemplateResolved
    /\ sr.template = TwoMissingTpl
    /\ sr.out.err = InvalidTokens({<<"x">>, <<"y">>})

C10_WitnessReference ==
    /\ SecretReferenceCalled
    /\ sr.pvc # None
    /\ DOMAIN sr.pvc.Annotations = {}
    /\ Lookup(sr.storageClassParams, sr.nameKey) = TwoMissingTpl \o Tok(<<"pvc.name">>)
    /\ sr.out.ref = None
    /\ sr.out.err.msg = "error resolving value"
    /\ sr.out.err.cause.tokens = {<<"x">>, <<"y">>}

(***************************************************************************)
(* makeVolumeName on its own: applied to prefixes, claim identifiers and   *)
(* truncation lengths drawn from the sets below.                           *)
(***************************************************************************)
MaxUUIDLength == 6

Prefixes == {<<>>, PrefixPvc}

ClaimUIDs ==
    {<<>>, UidAbCd, <<"a", "-", "b", "-", "c", "-", "d", "-", "e">>,
     <<"a", "b", "c", "d", "e", "f">>}

UUIDLengths == -1 .. MaxUUIDLength

CallMakeVolumeName ==
    /\ sr = None
    /\ \E prefix \in Prefixes, pvcUID \in ClaimUIDs, n \in UUIDLengths :
        sr' = [fn |-> "makeVolumeName", prefix |-> prefix, pvcUID |-> pvcUID,
               volumeNameUUIDLength |-> n,
               out |-> makeVolumeName(prefix, pvcUID, n)]
    /\ UNCHANGED <<volume, delRep, storageClass, p, pc, options, pvName, req, snapRead, refs, step, rep, calls, result>>
    /\ UNCHANGED attacherVars

SpecVolumeName == Init /\ [][CallMakeVolumeName]_vars

VolumeNameCalled == sr # None /\ sr.fn = "makeVolumeName"

\* The part of a name after the prefix and its "-" separator.
AfterPrefix(name, prefix) ==
    SubSeq(name, Len(prefix) + 2, Len(name))

\* C11: for a non-empty prefix and a non-empty claim identifier
\* makeVolumeName returns a name that starts with the prefix and "-"; with
\* a truncation length L (0 or more) the rest has exactly L characters and
\* no "-", with none configured (-1) the rest is the identifier as it is;
\* an empty prefix or an empty identifier gives an error and no name.
C11_VolumeName ==
    VolumeNameCalled =>
        IF Len(sr.prefix) = 0 \/ Len(sr.pvcUID) = 0
        THEN /\ ~sr.out.panic
             /\ sr.out.err # None
             /\ sr.out.name = <<>>
        ELSE /\ ~sr.out.panic
             /\ sr.out.err = None
             /\ SubSeq(sr.out.name, 1, Len(sr.prefix) + 1) = sr.prefix \o <<"-">>
             /\ IF sr.volumeNameUUIDLength = -1
                THEN AfterPrefix(sr.out.name, sr.prefix) = sr.pvcUID
                ELSE /\ Len(AfterPrefix(sr.out.name, sr.prefix)) = sr.volumeNameUUIDLength
                     /\ "-" \notin Range(AfterPrefix(sr.out.name, sr.prefix))

\* The same statement restricted to lengths that do not exceed the number of
\* characters the identifier has once its "-" are removed: the part of C11
\* the code keeps.
C11_WithinIdentifier ==
    (/\ VolumeNameCalled
     /\ sr.volumeNameUUIDLength <= Len(StripDashes(sr.pvcUID))) => C11_VolumeName

C11_PanicsBeyondIdentifier ==
    /\ VolumeNameCalled
    /\ sr.prefix = PrefixPvc
    /\ sr.pvcUID = UidAbCd
    /\ sr.volumeNameUUIDLength = 5
    /\ sr.out.panic

SecretReads == SelectSeq(calls, LAMBDA c : c.op = "GetSecret")

\* The position of the first call of the log that satisfies Is, or one past
\* the end of the log.
FirstCall(Is(_)) ==
    IF \E i \in 1 .. Len(calls) : Is(calls[i])
    THEN CHOOSE i \in 1 .. Len(calls) :
            /\ Is(calls[i])
            /\ \A j \in 1 .. i - 1 : ~Is(calls[j])
    ELSE Len(calls) + 1

IsCreateCall(c) == c.op = "CreateVolume"
IsSecretRead(c) == c.op = "GetSecret"

\* The reference a pair of storage-class parameters resolves to for the
\* claim being provisioned.
ResolvedRef(nameKey, namespaceKey, pvc) ==
    getSecretReference(nameKey, namespaceKey, options.Parameters, pvName, pvc).ref

\* C12: in one Provision at most one secret is read, it is the creation
\* secret and it is read before the first CreateVolume call; whenever a
\* creation secret is configured no CreateVolume is made without that read;
\* the controller-publish, node-stage and node-publish secrets are never
\* read, and the volume returned carries the three references they
\* resolve to.
C12_OnlyCreationSecretFetched ==
    options # None =>
        /\ Len(SecretReads) <= 1
        /\ \A i \in 1 .. Len(calls) :
              calls[i].op = "GetSecret" =>
                  /\ calls[i].ref = ResolvedRef(provisionerSecretNameKey,
                                        provisionerSecretNamespaceKey, None)
                  /\ i < FirstCall(IsCreateCall)
        /\ (CreateCalls # <<>> /\ refs.provisioner # None) =>
              FirstCall(IsSecretRead) < FirstCall(IsCreateCall)
        /\ result.pv # None =>
              /\ result.pv.CSI.ControllerPublishSecretRef =
                    ResolvedRef(controllerPublishSecretNameKey,
                                controllerPublishSecretNamespaceKey, options.PVC)
              /\ result.pv.CSI.NodeStageSecretRef =
                    ResolvedRef(nodeStageSecretNameKey,
                                nodeStageSecretNamespaceKey, options.PVC)
              /\ result.pv.CSI.NodePublishSecretRef =
                    ResolvedRef(nodePublishSecretNameKey,
                                nodePublishSecretNamespaceKey, options.PVC)

\* A volume returned with all four secrets configured: one read, of the
\* creation secret, ahead of the CreateVolume call, and three references
\* that differ from one another.
C12_Witness ==
    /\ pc = "done"
    /\ result.pv # None
    /\ Len(SecretReads) = 1
    /\ calls[1].op = "GetSecret"
    /\ CreateCalls # <<>>
    /\ result.pv.CSI.ControllerPublishSecretRef # None
    /\ result.pv.CSI.NodeStageSecretRef # None
    /\ result.pv.CSI.NodePublishSecretRef # None
    /\ result.pv.CSI.NodePublishSecretRef # result.pv.CSI.NodeStageSecretRef
    /\ result.pv.CSI.NodePublishSecretRef # refs.provisioner

DeleteCalled == pc \in {"storageClass", "deleteVolume", "deleted"}

InvalidVolumeError == Errorf("invalid CSI PV")

HasSource == volume # None /\ volume.CSI # None

\* C13 as claimed: Delete of a volume with no CSI source, or with a CSI
\* source that names another driver, fails with the invalid-volume error
\* and makes no DeleteVolume call.
C13_OtherDriverRefused ==
    (/\ DeleteCalled
     /\ (HasSource => volume.CSI.Driver # "DriverName")) =>
        /\ pc = "deleted"
        /\ result.err = InvalidVolumeError
        /\ DeleteCalls = <<>>

\* C13: Delete of no volume or of a volume with no CSI source fails with
\* the invalid-volume error and makes no call at all; a volume with a CSI
\* source is never refused as invalid, whichever driver the source names,
\* and with no storage class named its handle goes to DeleteVolume.
C13_NoSourceRefused ==
    DeleteCalled =>
        /\ ~HasSource =>
              /\ pc = "deleted"
              /\ result.err = InvalidVolumeError
              /\ calls = <<>>
        /\ (HasSource /\ pc = "deleted") =>
              /\ result.err # InvalidVolumeError
              /\ Len(volume.StorageClassName) = 0 =>
                    DeleteCalls = <<DeleteCall(volume.CSI.VolumeHandle)>>

C13_Witness ==
    /\ pc = "deleted"
    /\ volume # None
    /\ volume.CSI = None
    /\ result.err = InvalidVolumeError
    /\ calls = <<>>

C13_WitnessOtherDriver ==
    /\ pc = "deleted"
    /\ HasSource
    /\ volume.CSI.Driver = "other.driver"
    /\ DeleteCalls = <<DeleteCall("vol-1")>>
    /\ result.err = None

\* C14: Delete of a volume with a CSI source makes at most one DeleteVolume
\* call, for the volume's handle, and, when it made the call, returns what
\* the call returned: the driver's error as it is, or no error.
C14_SingleCallOutcomeUnchanged ==
    (DeleteCalled /\ HasSource) =>
        /\ Len(DeleteCalls) <= 1
        /\ \A i \in 1 .. Len(DeleteCalls) :
              DeleteCalls[i] = DeleteCall(volume.CSI.VolumeHandle)
        /\ (DeleteCalls = <<>>) = (delRep = None)
        /\ (pc = "deleted" /\ delRep # None) => result.err = delRep.err

\* Delete returning the driver's error after its one call.
C14_Witness ==
    /\ pc = "deleted"
    /\ HasSource
    /\ Len(DeleteCalls) = 1
    /\ delRep # None
    /\ delRep.err = Internal
    /\ result.err = Internal

StorageClassRead == DeleteCalled /\ storageClass # None

\* C15: when the read of the volume's storage class fails, Delete resolves
\* and reads no secret, goes on to its one DeleteVolume call with no
\* secrets in the request, and returns what that call returned.
C15_UnreadableClassTolerated ==
    (StorageClassRead /\ storageClass.err # None) =>
        /\ SecretReads = <<>>
        /\ req.ControllerDeleteSecrets = None
        /\ pc \in {"deleteVolume", "deleted"}
        /\ pc = "deleted" =>
              /\ DeleteCalls = <<DeleteCall(volume.CSI.VolumeHandle)>>
              /\ result.err = delRep.err

\* Delete done after a failed read of the storage class: one call, no
\* secrets, the driver's answer returned.
C15_Witness ==
    /\ pc = "deleted"
    /\ StorageClassRead
    /\ storageClass.err # None
    /\ Len(DeleteCalls) = 1
    /\ req.ControllerDeleteSecrets = None
    /\ result.err = None

\* The tokens of a template that name a field of the claim.
ClaimTokens(template) ==
    {t \in TokensOf(template) :
        t[1] \in {"pvc.name", "pvc.namespace", "pvc.annotations"}}

\* Delete read the storage class and its two creation-secret parameters are
\* both set.
DeleteResolvesSecret ==
    /\ StorageClassRead
    /\ storageClass.err = None
    /\ Len(Lookup(storageClass.obj.Parameters, provisionerSecretNameKey)) > 0
    /\ Len(Lookup(storageClass.obj.Parameters, provisionerSecretNamespaceKey)) > 0

DeleteNameTemplate == Lookup(storageClass.obj.Parameters, provisionerSecretNameKey)
DeleteNamespaceTemplate ==
    Lookup(storageClass.obj.Parameters, provisionerSecretNamespaceKey)

ClaimTokenAtDelete ==
    /\ DeleteResolvesSecret
    /\ ClaimTokens(DeleteNameTemplate) \cup ClaimTokens(DeleteNamespaceTemplate) # {}

IsResolvingError(e) ==
    /\ e # None
    /\ "msg" \in DOMAIN e
    /\ e.msg = "error resolving value"

\* C16 as claimed: a claim-scoped token in the storage class's creation
\* secret templates does not make Delete fail; the token is dropped and the
\* DeleteVolume call is made.
C16_ClaimTokenDropped ==
    (ClaimTokenAtDelete /\ pc = "deleted") =>
        /\ ~IsResolvingError(result.err)
        /\ (result.err = None \/ delRep # None) => Len(DeleteCalls) = 1

\* C16: at delete time a claim-scoped token in the creation secret's
\* namespace template, or in its name template when the namespace template
\* resolves to a valid namespace, makes Delete return the error that lists
\* the unresolved tokens of that template, with no secret read and no
\* DeleteVolume call.
C16_ClaimTokenFailsDelete ==
    ClaimTokenAtDelete =>
        LET nameMissing == TokensOf(DeleteNameTemplate) \ NameTokens(None)
            namespaceMissing ==
                TokensOf(DeleteNamespaceTemplate) \ NamespaceTokens(None)
            namespaceValid ==
                /\ namespaceMissing = {}
                /\ IsDNS1123Label(Expand(DeleteNamespaceTemplate,
                                         NamespaceParams(volume.Name, None)))
        IN  /\ pc = "deleted"
            /\ result.err # None
            /\ SecretReads = <<>>
            /\ DeleteCalls = <<>>
            /\ namespaceMissing # {} =>
                  result.err = ErrResolving(provisionerSecretNamespaceKey,
                                   DeleteNamespaceTemplate,
                                   InvalidTokens(namespaceMissing))
            /\ (namespaceValid /\ nameMissing # {}) =>
                  result.err = ErrResolving(provisionerSecretNameKey,
                                   DeleteNameTemplate,
                                   InvalidTokens(nameMissing))

\* Delete refusing a class whose secret name is "sec${pvc.name}".
C16_Witness ==
    /\ pc = "deleted"
    /\ ClaimTokenAtDelete
    /\ DeleteNameTemplate = LitSec \o PvcNameTpl
    /\ IsResolvingError(result.err)
    /\ result.err.cause = InvalidTokens({<<"pvc.name">>})
    /\ calls = <<ReadStorageClass(ClassName)>>

LastProbe == probeLog[Len(probeLog)]

\* What holds of the probes made so far and of the value returned.
ProbeLoopSafe ==
    /\ \A i \in 2 .. Len(probeLog) :
          probeLog[i].began = probeLog[i - 1].ended + 1
    /\ \A i \in 1 .. Len(probeLog) - 1 :
          /\ probeLog[i].err # None
          /\ probeLog[i].ended <= finish
    /\ wres # None =>
          /\ probeLog # <<>>
          /\ wpc \notin {"probe", "sleep"}
          /\ (wres.err = None) = (LastProbe.err = None)
          /\ wres.err # None =>
                /\ LastProbe.ended > finish
                /\ wres.err = ErrFailedToProbe(LastProbe.err)

\* C19: waitForDriverReady probes again one second after each failed probe
\* that ended by the deadline; it returns success at the first probe that
\* succeeds and failure at the first probe that fails after the deadline,
\* and probes no more once it has returned; and it always returns in the
\* end, so with a driver that never answers a probe it returns the failure.
C19_ProbeLoop ==
    /\ []ProbeLoopSafe
    /\ [][wres # None => probeLog' = probeLog]_vars
    /\ <>(wres # None)

\* The failure returned after four probes, the last one past the deadline.
C19_Witness ==
    /\ wres # None
    /\ wres.err # None
    /\ Len(probeLog) = 4
    /\ timeout = 3
    /\ LastProbe.began <= finish
    /\ LastProbe.ended > finish

C19_WitnessSuccess ==
    /\ wres # None
    /\ wres.err = None
    /\ Len(probeLog) = 3

Started(i) == informers[i] \/ running[i]

\* C17: an instance started with leader election whose informers or
\* controller loop are started, or whose main is past the leader-election
\* block, has had waitForLeader return with the lock; until then neither
\* is started.
C17_StartedAfterElected ==
    \A i \in Instances :
        (/\ leaderElection[i]
         /\ Started(i) \/ mainPc[i] \in {"newController", "run", "signal"})
            => elected[i]

\* An instance running its controller after winning the lock, the other
\* one still waiting with nothing started.
C17_Witness ==
    /\ leaderElection[1] /\ leaderElection[2]
    /\ running[1] /\ informers[1] /\ elected[1]
    /\ lock = 1
    /\ mainPc[2] = "waitForLeader"
    /\ ~Started(2)

InFlight(k) == {w \in Workers : worker[w] = k}

Queued(k) == {i \in 1 .. Len(queue) : queue[i] = k}

\* C20: no AttachmentRequest identity is reconciled by two workers at once;
\* events for an identity that is queued or being reconciled add up to at
\* most one reconciliation still to come; the workers are the fixed pool.
C20_OneInFlightPerIdentity ==
    /\ DOMAIN worker = 1 .. threads
    /\ \A k \in Requests :
          /\ Cardinality(InFlight(k)) <= 1
          /\ Cardinality(Queued(k)) <= 1
          /\ (k \in processing) = (InFlight(k) # {})
          /\ k \in processing => Queued(k) = {}
          /\ (k \notin processing) => ((k \in dirty) = (Queued(k) # {}))

\* Two identities reconciled by two workers at the same time, one of them
\* with a further event waiting.
C20_Witness ==
    /\ InFlight(1) # {}
    /\ InFlight(2) # {}
    /\ InFlight(1) # InFlight(2)
    /\ 1 \in dirty
    /\ queue = <<>>

VolumeReturned == pc = "done" /\ result.kind = "return" /\ result.pv # None

\* C21: the attributes of every volume Provision returns hold the
\* provisioner's identity under the provisioner-identity key, whatever the
\* driver returned, and every attribute the driver returned under another
\* key.
C21_IdentityTag ==
    VolumeReturned =>
        LET attributes == result.pv.CSI.VolumeAttributes
        IN  /\ provisionerIDKey \in DOMAIN attributes
            /\ attributes[provisionerIDKey] = p.identity
            /\ \A k \in DOMAIN rep.Volume.Attributes \ {provisionerIDKey} :
                  k \in DOMAIN attributes /\ attributes[k] = rep.Volume.Attributes[k]

\* The same statement for replies whose attributes do not use the
\* provisioner-identity key: the part of C21 the code keeps.
C21_IdentityTagUnlessOverwritten ==
    (VolumeReturned /\ provisionerIDKey \notin DOMAIN rep.Volume.Attributes)
        => C21_IdentityTag

\* A volume returned with the driver's value under the identity key.
C21_Overwritten ==
    /\ VolumeReturned
    /\ rep.Volume.Attributes = (provisionerIDKey :> "id-other")
    /\ result.pv.CSI.VolumeAttributes[provisionerIDKey] = "id-other"
    /\ p.identity = "id-1"

HasMessage(e, msg) == e # None /\ "msg" \in DOMAIN e /\ e.msg = msg

\* One of the four secret references of the claim does not resolve.
SecretReferenceError ==
    \/ getSecretReference(provisionerSecretNameKey, provisionerSecretNamespaceKey,
                          options.Parameters, pvName, None).err # None
    \/ \E keys \in {<<controllerPublishSecretNameKey, controllerPublishSecretNamespaceKey>>,
                    <<nodeStageSecretNameKey, nodeStageSecretNamespaceKey>>,
                    <<nodePublishSecretNameKey, nodePublishSecretNamespaceKey>>} :
          getSecretReference(keys[1], keys[2], options.Parameters, pvName,
                             options.PVC).err # None

\* Provision was called with, or has met, one of the failures that come
\* before the create step.
FailsBeforeCreate ==
    /\ options # None
    /\ \/ options.PVC.Selector
       \/ CheckDataSource(options.PVC.DataSource).out \in {"err", "panic"}
       \/ Len(p.volumeNamePrefix) = 0
       \/ Len(options.PVC.UID) = 0
       \/ /\ snapRead # None
          /\ getVolumeContentSource(options, snapRead.snapGet,
                                    snapRead.contentGet).err # None
       \/ SecretReferenceError
       \/ pc = "done" /\ HasMessage(result.err, "error getting secret")

\* C22: a Provision that fails before the create step (selector, content
\* source unsupported or invalid, empty prefix or claim UID, a secret
\* reference that does not resolve, the creation secret not read) makes no
\* CreateVolume and no DeleteVolume call and returns no volume.
C22_NoDriverCallBeforeCreate ==
    FailsBeforeCreate =>
        /\ CreateCalls = <<>>
        /\ DeleteCalls = <<>>
        /\ pc \in {"contentSource", "secrets", "done"}
        /\ pc = "done" => result.pv = None /\ result.kind \in {"return", "panic"}

\* Provision ended by the failed read of the creation secret, the read
\* being its only call.
C22_Witness ==
    /\ pc = "done"
    /\ Failed
    /\ HasMessage(result.err, "error getting secret")
    /\ Len(calls) = 1
    /\ calls[1].op = "GetSecret"

\* Provision ended by the node-stage reference that does not resolve.
C22_WitnessReference ==
    /\ pc = "done"
    /\ Failed
    /\ HasMessage(result.err, "error resolving value")
    /\ result.err.key = nodeStageSecretNameKey
    /\ calls = <<>>

\* The last CreateVolume call failed, or the attempts ran out.
CreateFailed ==
    /\ pc = "done"
    /\ CreateCalls # <<>>
    /\ rep.err # None

\* C23: within Provision a DeleteVolume call is made only after a
\* CreateVolume call that succeeded with a capacity below the requested
\* one, and it is the last call; a Provision that returns a volume, or
\* whose CreateVolume failed or ran out of attempts, has made none.
C23_DeleteOnlyAfterUnderAllocation ==
    options # None =>
        /\ DeleteCalls # <<>> =>
              /\ UnderAllocated
              /\ Len(DeleteCalls) = 1
              /\ calls[Len(calls)].op = "DeleteVolume"
              /\ calls[Len(calls) - 1] = CreateCall("OK")
        /\ VolumeReturned => DeleteCalls = <<>>
        /\ CreateFailed => DeleteCalls = <<>>

\* The compensating call made after an under-allocating CreateVolume.
C23_Witness ==
    /\ pc = "done"
    /\ options # None
    /\ UnderAllocated
    /\ DeleteCalls = <<DeleteCall("vol-1")>>
    /\ Failed

\* A volume returned with exactly the requested capacity, no DeleteVolume
\* call made.
C23_WitnessExact ==
    /\ VolumeReturned
    /\ rep.Volume.CapacityBytes = RequestedBytes(options.PVC)
    /\ DeleteCalls = <<>>

\* Attempts run out on deadline-exceeded answers, no DeleteVolume call made.
C23_WitnessExhausted ==
    /\ CreateFailed
    /\ Len(CreateCalls) = backoffSteps
    /\ DeleteCalls = <<>>

\* The claims that differ from pvc in name or annotations only.
SameNamespaceClaims(pvc) ==
    {c \in ClaimContexts \ {None} : c.Namespace = pvc.Namespace}

\* The same call of getSecretReference for another claim.
OutFor(pvc) ==
    getSecretReference(sr.nameKey, sr.namespaceKey, sr.storageClassParams,
                       sr.pvName, pvc)

\* The call failed on its namespace template.
NamespaceError(out) ==
    /\ out.err # None
    /\ "key" \in DOMAIN out.err
    /\ out.err.key = sr.namespaceKey

UserTokens(template) ==
    {t \in TokensOf(template) : t[1] \in {"pvc.name", "pvc.annotations"}}

\* C24: for a call of getSecretReference with a claim, the same call for
\* any claim of the same namespace with another name or other annotations
\* resolves the same namespace when both return a reference, and fails on
\* the namespace template with the same error when either does; and a
\* namespace template with a claim-name or claim-annotation token is
\* rejected with the error that lists its unresolved tokens.
C24_NamespaceIndependentOfClaim ==
    (SecretReferenceCalled /\ sr.pvc # None) =>
        LET namespaceT == Lookup(sr.storageClassParams, sr.namespaceKey)
            nameT == Lookup(sr.storageClassParams, sr.nameKey)
        IN  /\ \A c \in SameNamespaceClaims(sr.pvc) :
                  /\ (sr.out.ref # None /\ OutFor(c).ref # None) =>
                        sr.out.ref.Namespace = OutFor(c).ref.Namespace
                  /\ NamespaceError(sr.out) = NamespaceError(OutFor(c))
                  /\ NamespaceError(sr.out) => sr.out.err = OutFor(c).err
            /\ (Len(nameT) > 0 /\ UserTokens(namespaceT) # {}) =>
                  /\ sr.out.ref = None
                  /\ sr.out.err = ErrResolving(sr.namespaceKey, namespaceT,
                        InvalidTokens(TokensOf(namespaceT) \ NamespaceTokens(sr.pvc)))
                  /\ UserTokens(namespaceT) \subseteq sr.out.err.cause.tokens

\* A namespace template "${pvc.name}" rejected for a claim that has the name.
C24_Witness ==
    /\ SecretReferenceCalled
    /\ sr.pvc # None
    /\ Lookup(sr.storageClassParams, sr.namespaceKey) = PvcNameTpl
    /\ Lookup(sr.storageClassParams, sr.nameKey) = LitSec
    /\ sr.out.err.cause = InvalidTokens({<<"pvc.name">>})

\* Two claims of one namespace whose names differ: the name of the secret
\* follows the claim's name, its namespace does not.
C24_WitnessSameNamespace ==
    /\ SecretReferenceCalled
    /\ sr.pvc # None
    /\ Lookup(sr.storageClassParams, sr.namespaceKey) = PvcNsTpl
    /\ Lookup(sr.storageClassParams, sr.nameKey) = PvcNameTpl
    /\ sr.out.ref # None
    /\ \E c \in SameNamespaceClaims(sr.pvc) :
          /\ OutFor(c).ref # None
          /\ OutFor(c).ref.Name # sr.out.ref.Name
          /\ OutFor(c).ref.Namespace = sr.out.ref.Namespace

\* Delete, called on the volume Provision returned, has read the storage
\* class and found the parameters Provision was given.
DeletedWithSameParameters ==
    /\ options # None
    /\ StorageClassRead
    /\ storageClass.err = None
    /\ storageClass.obj.Parameters = options.Parameters

\* C25: for a volume Provision returned and unchanged storage-class
\* parameters, Delete resolves the creation secret to what Provision
\* resolved: with no reference at provision time neither reads a secret,
\* with a reference both read that same secret, and Delete does not fail
\* on resolving it.
C25_SameCreationSecret ==
    DeletedWithSameParameters =>
        /\ volume.Name = pvName
        /\ refs.provisioner = None => SecretReads = <<>>
        /\ refs.provisioner # None =>
              SecretReads = <<ReadSecret(refs.provisioner), ReadSecret(refs.provisioner)>>
        /\ (pc = "deleted" /\ result.err # None) =>
              \/ HasMessage(result.err, "error getting secret")
              \/ delRep # None /\ result.err = delRep.err

\* Provision and Delete have both read the secret "ks/s-pvc-ab-cd", named
\* after the volume, and the volume is deleted.
C25_Witness ==
    /\ DeletedWithSameParameters
    /\ pc = "deleted"
    /\ result.err = None
    /\ refs.provisioner # None
    /\ refs.provisioner.Name = <<"s", "-">> \o pvName
    /\ Len(SecretReads) = 2
    /\ SecretReads[1] = SecretReads[2]
    /\ Len(DeleteCalls) = 1

====
